---- MODULE Spec2Model ----
(***************************************************************************)
(* Model of the lint scheduling layer of the shiftreset.run VS Code        *)
(* extension: ExtensionManager.scheduleLint / lintDocument /               *)
(* checkCompliance, the manual lint command and the document-close         *)
(* handler, together with the timers, cancellation token sources and       *)
(* diagnostic collections they act on.                                     *)
(*                                                                         *)
(* Every modelled document has languageId = LANGUAGE_ID; for other         *)
(* documents all handlers return before touching any state.                *)
(*                                                                         *)
(* The second part models the HTTP client, ShiftresetClient: one call from *)
(* makeRequest to its ApiResult, with the timeout timer, the caller's and  *)
(* the combined abort signals, the response and the read of its body, and  *)
(* ShiftresetApiError with its isRetriable getter.                         *)
(***************************************************************************)
EXTENDS Integers, FiniteSets, Sequences, TLC

\* Debounce delay in milliseconds for save-triggered linting.
DEBOUNCE_MS == 500

\* Document URIs (keys of pendingLints).
Docs == {"a.ls", "b.ls"}

\* Bounds of the exploration.
MaxOps == 2          \* invocations of scheduleLint, lintDocument, checkCompliance,
                     \* fixDocument and formatDocument
MaxVersion == 2      \* highest document.version reached by edits
MaxTime == 1000      \* the clock stops advancing here (ms)
Quantum == 250       \* clock granularity (ms)

MaxFixes == 1        \* fixDocument invocations
MaxFormats == 1      \* formatDocument invocations

Ids == 1..MaxOps

\* Outcomes of a client call as seen by the caller: ApiResult success with a
\* well-formed payload, ApiResult failure, or a 2xx JSON payload without a
\* usable diagnostics array (the payload is cast, not validated).
Results == {"success", "failure", "malformed"}

\* A URI without an entry in a DiagnosticCollection.
NoDiagnostics == [set |-> FALSE, version |-> 0]

VARIABLES
    now,                             \* wall clock (ms)
    lastTrigger,                     \* time of the latest scheduleLint call, per document
    version,                         \* document.version, per document
    open,                            \* document is open in the editor
    nextId,                          \* next fresh timer / token source / invocation id
    pendingLints,                    \* Map<string, {timer, cancel}>
    timers,                          \* setTimeout handles
    tokens,                          \* CancellationTokenSource objects
    lints,                           \* lintDocument invocations
    compliance,                      \* checkCompliance invocations
    fixes,                           \* fixDocument invocations
    formats,                         \* formatDocument invocations
    diagnosticCollection,            \* "shiftreset" collection, per URI
    complianceDiagnosticCollection,  \* "shiftreset-compliance" collection, per URI
    activeLintCount,
    statusBarVisible,
    errorMessages,                   \* invocations that called showErrorMessage
    client,                          \* the ShiftresetClient object
    call,                            \* the client call being made (makeRequest)
    probe,                           \* a ShiftresetApiError built by user code
    request,                         \* a request URL built by a client method
    parsed,                          \* a parseLspResponse call and its result
    pipeline,                        \* a lint result handed to the diagnostic collection
    disposed                         \* ExtensionManager.dispose() has run

vars == <<now, lastTrigger, version, open, nextId, pendingLints, timers, tokens, lints,
          compliance, fixes, formats, diagnosticCollection, complianceDiagnosticCollection,
          activeLintCount, statusBarVisible, errorMessages, client, call, probe,
          request, parsed, pipeline, disposed>>

\* The variables of the ExtensionManager, apart from the clock.
managerVars == <<lastTrigger, version, open, nextId, pendingLints, timers, tokens, lints,
                 compliance, fixes, formats, diagnosticCollection, complianceDiagnosticCollection,
                 activeLintCount, statusBarVisible, errorMessages, disposed>>

----------------------------------------------------------------------------
\* Map<string, ...> operations.

MapHas(m, k) == k \in DOMAIN m

MapSet(m, k, v) == [x \in (DOMAIN m) \cup {k} |-> IF x = k THEN v ELSE m[x]]

MapDelete(m, k) == [x \in (DOMAIN m) \ {k} |-> m[x]]

EmptyMap == [x \in {} |-> 0]

----------------------------------------------------------------------------
\* Records for unused ids.

NoTimer == [state |-> "unset", key |-> "", deadline |-> 0]

NoToken == [state |-> "unset", cancelled |-> FALSE, disposed |-> FALSE]

NoLint == [state |-> "none", doc |-> "", documentVersion |-> 0, content |-> 0,
           owned |-> FALSE, aborted |-> FALSE]

NoCompliance == [state |-> "none", doc |-> "", content |-> 0]

NoFix == [state |-> "none", doc |-> ""]

NoFormat == [state |-> "none", doc |-> ""]

\* A continuation is queued as a microtask: the lintDocument that fixDocument
\* awaits has ended and fixDocument has not resumed yet. Timers, events of
\* the editor and commands run only once the queue of microtasks is empty.
MicrotaskPending == \E i \in Ids : fixes[i].state = "linted"

\* new vscode.CancellationTokenSource()
NewToken == [state |-> "live", cancelled |-> FALSE, disposed |-> FALSE]

----------------------------------------------------------------------------
\* Timers and cancellation token sources.

\* setTimeout(callback, delay) issued at time t for key k.
SetTimeout(tm, id, k, t, delay) ==
    [tm EXCEPT ![id] = [state |-> "armed", key |-> k, deadline |-> t + delay]]

\* Variant of ClearTimeout that leaves the timer armed.
ClearTimeoutKeepArmed(tm, id) == tm

\* clearTimeout(handle): an armed timer never runs its callback.
ClearTimeout(tm, id) ==
    IF tm[id].state = "armed"
    THEN [tm EXCEPT ![id].state = "cleared", ![id].deadline = 0]
    ELSE tm

\* CancellationTokenSource.cancel()
TokenCancel(tk, id) == [tk EXCEPT ![id].cancelled = TRUE]

\* CancellationTokenSource.dispose(): listeners are dropped.
TokenDispose(tk, id) == [tk EXCEPT ![id].disposed = TRUE]

\* Effect of cancel() on the listener registered by lintDocument
\* (onCancellationRequested -> abortController.abort()): it runs when the
\* token was neither cancelled nor disposed before and the invocation using
\* it is still awaiting the client.
FireCancellation(ln, tk, id) ==
    IF /\ ~tk[id].cancelled
       /\ ~tk[id].disposed
       /\ ln[id].state = "running"
    THEN [ln EXCEPT ![id].aborted = TRUE]
    ELSE ln

----------------------------------------------------------------------------
\* Status bar accounting.

ShowLintingStatus(s) == [count |-> s.count + 1, visible |-> TRUE]

HideLintingStatus(s) ==
    IF s.count - 1 <= 0
    THEN [count |-> 0, visible |-> FALSE]
    ELSE [count |-> s.count - 1, visible |-> s.visible]

Status == [count |-> activeLintCount, visible |-> statusBarVisible]

----------------------------------------------------------------------------
\* ShiftresetClient (src/api/ShiftresetClient.ts): values.

\* Default request timeout (ms).
DEFAULT_TIMEOUT_MS == 30000

\* Bound of the exploration: client calls made one after another.
MaxCalls == 2

\* An optional value (T | undefined) is the empty set or a singleton.
Undefined == {}

Some(v) == {v}

ValueOf(o) == CHOOSE v \in o : TRUE

\* o ?? d
Coalesce(o, d) == IF o = Undefined THEN d ELSE ValueOf(o)

\* Strings the code inspects are sequences of characters.
\* String.prototype.includes
Includes(s, sub) ==
    \E i \in 0..(Len(s) - Len(sub)) : SubSeq(s, i + 1, i + Len(sub)) = sub

\* Decimal digits of a natural number (template literal ${status}).
RECURSIVE ToDigits(_)
ToDigits(n) ==
    LET d == <<"0", "1", "2", "3", "4", "5", "6", "7", "8", "9">>[(n % 10) + 1]
    IN IF n < 10 THEN <<d>> ELSE Append(ToDigits(n \div 10), d)

S_network ==
    <<"n", "e", "t", "w", "o", "r", "k">>

S_fetch ==
    <<"f", "e", "t", "c", "h">>

S_application_json ==
    <<"a", "p", "p", "l", "i", "c", "a", "t", "i", "o", "n", "/", "j", "s",
      "o", "n">>

S_text_plain ==
    <<"t", "e", "x", "t", "/", "p", "l", "a", "i", "n">>

S_OK ==
    <<"O", "K">>

S_fetch_failed ==
    <<"f", "e", "t", "c", "h", " ", "f", "a", "i", "l", "e", "d">>

S_network_timeout ==
    <<"n", "e", "t", "w", "o", "r", "k", " ", "t", "i", "m", "e", "o", "u",
      "t">>

S_socket_hang_up ==
    <<"s", "o", "c", "k", "e", "t", " ", "h", "a", "n", "g", " ", "u", "p">>

S_terminated ==
    <<"t", "e", "r", "m", "i", "n", "a", "t", "e", "d">>

S_This_operation_was_aborted ==
    <<"T", "h", "i", "s", " ", "o", "p", "e", "r", "a", "t", "i", "o", "n",
      " ", "w", "a", "s", " ", "a", "b", "o", "r", "t", "e", "d">>

S_The_operation_was_aborted ==
    <<"T", "h", "e", " ", "o", "p", "e", "r", "a", "t", "i", "o", "n", " ",
      "w", "a", "s", " ", "a", "b", "o", "r", "t", "e", "d", ".">>

S_aborted_due_to_timeout ==
    <<"T", "h", "e", " ", "o", "p", "e", "r", "a", "t", "i", "o", "n", " ",
      "w", "a", "s", " ", "a", "b", "o", "r", "t", "e", "d", " ", "d", "u",
      "e", " ", "t", "o", " ", "t", "i", "m", "e", "o", "u", "t">>

S_json_utf8 ==
    <<"a", "p", "p", "l", "i", "c", "a", "t", "i", "o", "n", "/", "j", "s",
      "o", "n", ";", " ", "c", "h", "a", "r", "s", "e", "t", "=", "u", "t",
      "f", "-", "8">>

S_text_utf8 ==
    <<"t", "e", "x", "t", "/", "p", "l", "a", "i", "n", ";", " ", "c", "h",
      "a", "r", "s", "e", "t", "=", "u", "t", "f", "-", "8">>

S_application_xml ==
    <<"a", "p", "p", "l", "i", "c", "a", "t", "i", "o", "n", "/", "x", "m",
      "l">>

S_Application_JSON ==
    <<"A", "p", "p", "l", "i", "c", "a", "t", "i", "o", "n", "/", "J", "S",
      "O", "N">>

S_diagnostics ==
    <<"d", "i", "a", "g", "n", "o", "s", "t", "i", "c", "s">>

S_content ==
    <<"c", "o", "n", "t", "e", "n", "t">>

S_empty_batch ==
    <<"{", "\"", "d", "i", "a", "g", "n", "o", "s", "t", "i", "c", "s", "\"",
      ":", "[", "]", "}">>

S_null ==
    <<"n", "u", "l", "l">>

S_open_brace ==
    <<"{">>

S_formatted ==
    <<" ", "/", "P", "R", "O", "G", " ", "T", "E", "S", "T", "\n", "/", "E",
      "N", "D", "\n">>

----------------------------------------------------------------------------
\* JavaScript values, as JSON.parse produces them.  Every value is a record
\* of the same shape: type is "undefined", "null", "boolean", "number",
\* "string", "array" or "object"; a boolean keeps 1 or 0 and a number ten
\* times its value in num (so 25 is 2.5), a string its characters in str, an
\* array its elements in items and an object its properties, in insertion
\* order, in props.

JsUndefined == [type |-> "undefined", num |-> 0, str |-> <<>>, items |-> <<>>, props |-> <<>>]

JsNull == [JsUndefined EXCEPT !.type = "null"]

JsBoolean(b) == [JsUndefined EXCEPT !.type = "boolean", !.num = IF b THEN 1 ELSE 0]

\* The number tenths / 10.
JsNumber(tenths) == [JsUndefined EXCEPT !.type = "number", !.num = tenths]

\* The integer n.
JsInteger(n) == JsNumber(10 * n)

JsString(s) == [JsUndefined EXCEPT !.type = "string", !.str = s]

JsArray(items) == [JsUndefined EXCEPT !.type = "array", !.items = items]

JsObject(props) == [JsUndefined EXCEPT !.type = "object", !.props = props]

\* typeof value
TypeOf(v) == IF v.type \in {"null", "array"} THEN "object" ELSE v.type

\* obj[key] of an object; undefined if there is no such property.
RECURSIVE GetFrom(_, _, _)
GetFrom(props, key, i) ==
    IF i > Len(props) THEN JsUndefined
    ELSE IF props[i].key = key THEN props[i].value
    ELSE GetFrom(props, key, i + 1)

Get(obj, key) == GetFrom(obj.props, key, 1)

DigitChars == <<"0", "1", "2", "3", "4", "5", "6", "7", "8", "9">>

IsDigit(c) == \E d \in 1..10 : DigitChars[d] = c

DigitValue(c) == (CHOOSE d \in 1..10 : DigitChars[d] = c) - 1

\* The largest array index, 2^32 - 2, in decimal digits.
S_max_index ==
    <<"4", "2", "9", "4", "9", "6", "7", "2", "9", "4">>

\* a comes before b, both being texts of decimal digits without a leading
\* zero: the shorter is the smaller number, and of two of one length the one
\* with the smaller digit where they first differ.
DecimalLess(a, b) ==
    \/ Len(a) < Len(b)
    \/ /\ Len(a) = Len(b)
       /\ \E i \in 1..Len(a) :
              /\ SubSeq(a, 1, i - 1) = SubSeq(b, 1, i - 1)
              /\ DigitValue(a[i]) < DigitValue(b[i])

\* key is an array index: the decimal text, without a leading zero, of an
\* integer from 0 to 2^32 - 2.
IsArrayIndex(key) ==
    /\ key # <<>>
    /\ \A i \in 1..Len(key) : IsDigit(key[i])
    /\ Len(key) = 1 \/ key[1] # "0"
    /\ key = S_max_index \/ DecimalLess(key, S_max_index)

\* obj[key] = value on a property list kept in the order the properties of
\* an object are enumerated in: array indices first, in ascending order, then
\* the other keys in the order of their creation. An existing key keeps its
\* place.
SetProp(props, key, value) ==
    IF \E i \in 1..Len(props) : props[i].key = key
    THEN [i \in 1..Len(props) |->
             IF props[i].key = key THEN [key |-> key, value |-> value] ELSE props[i]]
    ELSE IF IsArrayIndex(key)
    THEN LET before == Cardinality({i \in 1..Len(props) :
                                       /\ IsArrayIndex(props[i].key)
                                       /\ DecimalLess(props[i].key, key)})
         IN SubSeq(props, 1, before) \o <<[key |-> key, value |-> value]>>
            \o SubSeq(props, before + 1, Len(props))
    ELSE Append(props, [key |-> key, value |-> value])

----------------------------------------------------------------------------
\* JSON.parse and JSON.stringify on texts made of objects, arrays, strings
\* with the escapes \" \\ \/ \n, numbers with at most one fractional digit
\* and no exponent, true, false and null.

HexDigits ==
    <<"0", "1", "2", "3", "4", "5", "6", "7", "8", "9", "A", "B", "C", "D", "E", "F">>

LowerHexDigits ==
    <<"0", "1", "2", "3", "4", "5", "6", "7", "8", "9", "a", "b", "c", "d", "e", "f">>

\* A string is a sequence of UTF-16 code units, a character for short. The
\* characters 0x20 to 0x7E (but the grave accent), tab, line feed, form feed
\* and carriage return are written as themselves; every other one is written
\* as U+ and the four hexadecimal digits of its code.
CodeUnit(n) ==
    "U+" \o HexDigits[((n \div 4096) % 16) + 1] \o HexDigits[((n \div 256) % 16) + 1]
         \o HexDigits[((n \div 16) % 16) + 1] \o HexDigits[(n % 16) + 1]

\* The grave accent (0x60), a character that a string literal of TLA+ cannot
\* hold.
GraveAccent == "U+0060"

\* The characters of the ASCII range 0x20 to 0x7E, in the order of their
\* codes.
AsciiPrintable ==
    <<
      " ", "!", "\"", "#", "$", "%", "&", "'", "(", ")", "*", "+",
      ",", "-", ".", "/", "0", "1", "2", "3", "4", "5", "6", "7",
      "8", "9", ":", ";", "<", "=", ">", "?", "@", "A", "B", "C",
      "D", "E", "F", "G", "H", "I", "J", "K", "L", "M", "N", "O",
      "P", "Q", "R", "S", "T", "U", "V", "W", "X", "Y", "Z", "[",
      "\\", "]", "^", "_", GraveAccent, "a", "b", "c", "d", "e", "f", "g",
      "h", "i", "j", "k", "l", "m", "n", "o", "p", "q", "r", "s",
      "t", "u", "v", "w", "x", "y", "z", "{", "|", "}", "~">>

\* The character of a code (String.fromCharCode).
CharOfCode(n) ==
    IF n \in 32..126 THEN AsciiPrintable[n - 31]
    ELSE IF n = 9 THEN "\t"
    ELSE IF n = 10 THEN "\n"
    ELSE IF n = 12 THEN "\f"
    ELSE IF n = 13 THEN "\r"
    ELSE CodeUnit(n)

\* The code of a character (charCodeAt).
CharCode(c) ==
    IF c = "\t" THEN 9
    ELSE IF c = "\n" THEN 10
    ELSE IF c = "\f" THEN 12
    ELSE IF c = "\r" THEN 13
    ELSE IF \E i \in 1..95 : AsciiPrintable[i] = c
    THEN (CHOOSE i \in 1..95 : AsciiPrintable[i] = c) + 31
    ELSE CHOOSE n \in 0..65535 : CodeUnit(n) = c

\* Backspace (0x08).
Backspace == CharOfCode(8)

\* The UTF-8 bytes of a code point.
Utf8(cp) ==
    IF cp < 128 THEN <<cp>>
    ELSE IF cp < 2048 THEN <<192 + (cp \div 64), 128 + (cp % 64)>>
    ELSE IF cp < 65536
    THEN <<224 + (cp \div 4096), 128 + ((cp \div 64) % 64), 128 + (cp % 64)>>
    ELSE <<240 + (cp \div 262144), 128 + ((cp \div 4096) % 64),
           128 + ((cp \div 64) % 64), 128 + (cp % 64)>>

\* The percent-encoding of the UTF-8 bytes of a code point.
PercentEncode(cp) ==
    LET bytes == Utf8(cp)
        enc[i \in 0..Len(bytes)] ==
            IF i = 0 THEN <<>>
            ELSE enc[i - 1] \o <<"%", HexDigits[(bytes[i] \div 16) + 1],
                                 HexDigits[(bytes[i] % 16) + 1]>>
    IN enc[Len(bytes)]

\* The texts of the SyntaxErrors of JSON.parse.
S_Unexpected_end_of_JSON_input ==
    <<"U", "n", "e", "x", "p", "e", "c", "t", "e", "d", " ", "e", "n", "d",
      " ", "o", "f", " ", "J", "S", "O", "N", " ", "i", "n", "p", "u", "t">>

S_Unexpected_number ==
    <<"U", "n", "e", "x", "p", "e", "c", "t", "e", "d", " ", "n", "u", "m",
      "b", "e", "r">>

S_Unexpected_string ==
    <<"U", "n", "e", "x", "p", "e", "c", "t", "e", "d", " ", "s", "t", "r",
      "i", "n", "g">>

S_Unexpected_token_quote ==
    <<"U", "n", "e", "x", "p", "e", "c", "t", "e", "d", " ", "t", "o", "k",
      "e", "n", " ", "'">>

S_is_not_valid_JSON ==
    <<" ", "i", "s", " ", "n", "o", "t", " ", "v", "a", "l", "i", "d", " ",
      "J", "S", "O", "N">>

S_in_JSON_at_position ==
    <<" ", "i", "n", " ", "J", "S", "O", "N", " ", "a", "t", " ", "p", "o",
      "s", "i", "t", "i", "o", "n", " ">>

S_Expected_property_name_or_brace ==
    <<"E", "x", "p", "e", "c", "t", "e", "d", " ", "p", "r", "o", "p", "e",
      "r", "t", "y", " ", "n", "a", "m", "e", " ", "o", "r", " ", "'", "}",
      "'">>

S_Expected_colon_after_property_name ==
    <<"E", "x", "p", "e", "c", "t", "e", "d", " ", "'", ":", "'", " ", "a",
      "f", "t", "e", "r", " ", "p", "r", "o", "p", "e", "r", "t", "y", " ",
      "n", "a", "m", "e">>

S_Expected_comma_or_brace ==
    <<"E", "x", "p", "e", "c", "t", "e", "d", " ", "'", ",", "'", " ", "o",
      "r", " ", "'", "}", "'", " ", "a", "f", "t", "e", "r", " ", "p", "r",
      "o", "p", "e", "r", "t", "y", " ", "v", "a", "l", "u", "e">>

S_Expected_double_quoted_property_name ==
    <<"E", "x", "p", "e", "c", "t", "e", "d", " ", "d", "o", "u", "b", "l",
      "e", "-", "q", "u", "o", "t", "e", "d", " ", "p", "r", "o", "p", "e",
      "r", "t", "y", " ", "n", "a", "m", "e">>

S_Expected_comma_or_bracket ==
    <<"E", "x", "p", "e", "c", "t", "e", "d", " ", "'", ",", "'", " ", "o",
      "r", " ", "'", "]", "'", " ", "a", "f", "t", "e", "r", " ", "a", "r",
      "r", "a", "y", " ", "e", "l", "e", "m", "e", "n", "t">>

S_Unexpected_non_whitespace_character ==
    <<"U", "n", "e", "x", "p", "e", "c", "t", "e", "d", " ", "n", "o", "n",
      "-", "w", "h", "i", "t", "e", "s", "p", "a", "c", "e", " ", "c", "h",
      "a", "r", "a", "c", "t", "e", "r", " ", "a", "f", "t", "e", "r", " ",
      "J", "S", "O", "N", " ", "a", "t", " ", "p", "o", "s", "i", "t", "i",
      "o", "n", " ">>

S_Unterminated_string ==
    <<"U", "n", "t", "e", "r", "m", "i", "n", "a", "t", "e", "d", " ", "s",
      "t", "r", "i", "n", "g">>

S_Bad_control_character ==
    <<"B", "a", "d", " ", "c", "o", "n", "t", "r", "o", "l", " ", "c", "h",
      "a", "r", "a", "c", "t", "e", "r", " ", "i", "n", " ", "s", "t", "r",
      "i", "n", "g", " ", "l", "i", "t", "e", "r", "a", "l">>

S_Bad_escaped_character ==
    <<"B", "a", "d", " ", "e", "s", "c", "a", "p", "e", "d", " ", "c", "h",
      "a", "r", "a", "c", "t", "e", "r">>

S_Bad_Unicode_escape ==
    <<"B", "a", "d", " ", "U", "n", "i", "c", "o", "d", "e", " ", "e", "s",
      "c", "a", "p", "e">>

S_No_number_after_minus_sign ==
    <<"N", "o", " ", "n", "u", "m", "b", "e", "r", " ", "a", "f", "t", "e",
      "r", " ", "m", "i", "n", "u", "s", " ", "s", "i", "g", "n">>

S_Unterminated_fractional_number ==
    <<"U", "n", "t", "e", "r", "m", "i", "n", "a", "t", "e", "d", " ", "f",
      "r", "a", "c", "t", "i", "o", "n", "a", "l", " ", "n", "u", "m", "b",
      "e", "r">>

S_Exponent_part_is_missing_a_number ==
    <<"E", "x", "p", "o", "n", "e", "n", "t", " ", "p", "a", "r", "t", " ",
      "i", "s", " ", "m", "i", "s", "s", "i", "n", "g", " ", "a", " ", "n",
      "u", "m", "b", "e", "r">>

S_NaN ==
    <<"N", "a", "N">>

S_Infinity ==
    <<"I", "n", "f", "i", "n", "i", "t", "y">>

S_undefined_text ==
    <<"u", "n", "d", "e", "f", "i", "n", "e", "d">>

S_object_Object ==
    <<"[", "o", "b", "j", "e", "c", "t", " ", "O", "b", "j", "e", "c", "t",
      "]">>

JsonWhiteSpace == {" ", "\t", "\n", "\r"}

\* The characters below 0x20, which a JSON string holds only escaped.
ControlChars == {CharOfCode(n) : n \in 0..31}

IsHexDigit(c) == \E d \in 1..16 : HexDigits[d] = c \/ LowerHexDigits[d] = c

HexValue(c) == (CHOOSE d \in 1..16 : HexDigits[d] = c \/ LowerHexDigits[d] = c) - 1

RECURSIVE Pow10(_)
Pow10(k) == IF k = 0 THEN 1 ELSE 10 * Pow10(k - 1)

\* The result of a parsing step: the value read and the position after it,
\* or, where the parser reports an error, the position of its cursor and the
\* text of the error; an empty text stands for the report of the token at
\* the cursor.
ParseOk(v, p) == [ok |-> TRUE, val |-> v, pos |-> p, kind |-> <<>>]

ParseErr(kind, p) == [ok |-> FALSE, val |-> JsUndefined, pos |-> p, kind |-> kind]

UnexpectedToken(p) == ParseErr(<<>>, p)

RECURSIVE SkipWhiteSpace(_, _)
SkipWhiteSpace(s, i) ==
    IF i <= Len(s) /\ s[i] \in JsonWhiteSpace THEN SkipWhiteSpace(s, i + 1) ELSE i

StartsWith(s, i, lit) ==
    i + Len(lit) - 1 <= Len(s) /\ SubSeq(s, i, i + Len(lit) - 1) = lit

\* The first position from i where s departs from the literal lit that
\* starts at position i0, or the end of s.
RECURSIVE LiteralMismatch(_, _, _, _)
LiteralMismatch(s, i0, i, lit) ==
    IF i > Len(s) \/ s[i] # lit[i - i0 + 1] THEN i
    ELSE LiteralMismatch(s, i0, i + 1, lit)

\* A literal name at position i: the value, or the report of the first
\* character that is not of the name.
ScanLiteral(s, i, lit, v) ==
    IF StartsWith(s, i, lit) THEN ParseOk(v, i + Len(lit))
    ELSE UnexpectedToken(LiteralMismatch(s, i, i + 1, lit))

\* The four hexadecimal digits of a \u escape from position i: the code, or
\* the position of the first character that is not such a digit.
RECURSIVE UnicodeEscape(_, _, _, _)
UnicodeEscape(s, i, k, n) ==
    IF k = 0 THEN [ok |-> TRUE, code |-> n, pos |-> i]
    ELSE IF i > Len(s) \/ ~IsHexDigit(s[i]) THEN [ok |-> FALSE, code |-> 0, pos |-> i]
    ELSE UnicodeEscape(s, i + 1, k - 1, 16 * n + HexValue(s[i]))

\* The characters of a string after its opening quote. After a backslash
\* the end of the text and a character above 0xFF are reported as the token
\* at the cursor, any other character that starts no escape as a bad escaped
\* character.
RECURSIVE ParseString(_, _, _)
ParseString(s, i, acc) ==
    IF i > Len(s) THEN ParseErr(S_Unterminated_string, i)
    ELSE IF s[i] = "\"" THEN ParseOk(JsString(acc), i + 1)
    ELSE IF s[i] = "\\"
    THEN IF i + 1 > Len(s) \/ CharCode(s[i + 1]) > 255 THEN UnexpectedToken(i + 1)
         ELSE IF s[i + 1] \in {"\"", "\\", "/"}
         THEN ParseString(s, i + 2, Append(acc, s[i + 1]))
         ELSE IF s[i + 1] = "b" THEN ParseString(s, i + 2, Append(acc, Backspace))
         ELSE IF s[i + 1] = "f" THEN ParseString(s, i + 2, Append(acc, "\f"))
         ELSE IF s[i + 1] = "n" THEN ParseString(s, i + 2, Append(acc, "\n"))
         ELSE IF s[i + 1] = "r" THEN ParseString(s, i + 2, Append(acc, "\r"))
         ELSE IF s[i + 1] = "t" THEN ParseString(s, i + 2, Append(acc, "\t"))
         ELSE IF s[i + 1] = "u"
         THEN LET u == UnicodeEscape(s, i + 2, 4, 0)
              IN IF u.ok THEN ParseString(s, u.pos, Append(acc, CharOfCode(u.code)))
                 ELSE ParseErr(S_Bad_Unicode_escape, u.pos)
         ELSE ParseErr(S_Bad_escaped_character, i + 1)
    ELSE IF s[i] \in ControlChars THEN ParseErr(S_Bad_control_character, i)
    ELSE ParseString(s, i + 1, Append(acc, s[i]))

\* A run of digits from position i: its value and the position after it.
RECURSIVE ParseDigits(_, _, _)
ParseDigits(s, i, n) ==
    IF i <= Len(s) /\ IsDigit(s[i])
    THEN ParseDigits(s, i + 1, 10 * n + DigitValue(s[i]))
    ELSE [n |-> n, pos |-> i]

\* The number m * 10^k in tenths. A number finer than a tenth is kept as the
\* tenth below it, or the one above where that one below is an integer: it
\* lies between the same integers and is an integer only if the number is.
Tenths(m, k) ==
    IF k >= 0 THEN m * Pow10(k)
    ELSE LET q == m \div Pow10(-k)
         IN IF m % Pow10(-k) = 0 THEN q
            ELSE IF q % 10 = 0 THEN q + 1
            ELSE q

ParseNumber(s, i) ==
    LET neg == s[i] = "-"
        j == IF neg THEN i + 1 ELSE i
        zero == j <= Len(s) /\ s[j] = "0"
        int == IF zero THEN [n |-> 0, pos |-> j + 1] ELSE ParseDigits(s, j, 0)
        hasFrac == int.pos <= Len(s) /\ s[int.pos] = "."
        frac == IF hasFrac THEN ParseDigits(s, int.pos + 1, 0)
                ELSE [n |-> 0, pos |-> int.pos]
        places == IF hasFrac THEN frac.pos - (int.pos + 1) ELSE 0
        hasExp == frac.pos <= Len(s) /\ s[frac.pos] \in {"e", "E"}
        expNeg == hasExp /\ frac.pos + 1 <= Len(s) /\ s[frac.pos + 1] = "-"
        expStart == IF hasExp /\ frac.pos + 1 <= Len(s) /\ s[frac.pos + 1] \in {"-", "+"}
                    THEN frac.pos + 2 ELSE frac.pos + 1
        exp == IF hasExp THEN ParseDigits(s, expStart, 0) ELSE [n |-> 0, pos |-> frac.pos]
        sign == IF neg THEN -1 ELSE 1
        mantissa == int.n * Pow10(places) + frac.n
        power == (IF expNeg THEN -exp.n ELSE exp.n) - places + 1
    IN IF zero /\ j + 1 <= Len(s) /\ IsDigit(s[j + 1]) THEN UnexpectedToken(j + 1)
       ELSE IF int.pos = j THEN ParseErr(S_No_number_after_minus_sign, j)
       ELSE IF hasFrac /\ places = 0
       THEN ParseErr(S_Unterminated_fractional_number, int.pos + 1)
       ELSE IF hasExp /\ exp.pos = expStart
       THEN ParseErr(S_Exponent_part_is_missing_a_number, expStart)
       ELSE ParseOk(JsNumber(sign * Tenths(mantissa, power)), exp.pos)

RECURSIVE ParseValue(_, _)
RECURSIVE ParseElements(_, _, _)
RECURSIVE ParseMembers(_, _, _)

ParseValue(s, i0) ==
    LET i == SkipWhiteSpace(s, i0)
    IN IF i > Len(s) THEN UnexpectedToken(i)
       ELSE IF s[i] = "{"
       THEN LET j == SkipWhiteSpace(s, i + 1)
            IN IF j <= Len(s) /\ s[j] = "}"
               THEN ParseOk(JsObject(<<>>), j + 1)
               ELSE ParseMembers(s, j, <<>>)
       ELSE IF s[i] = "["
       THEN LET j == SkipWhiteSpace(s, i + 1)
            IN IF j <= Len(s) /\ s[j] = "]"
               THEN ParseOk(JsArray(<<>>), j + 1)
               ELSE ParseElements(s, j, <<>>)
       ELSE IF s[i] = "\"" THEN ParseString(s, i + 1, <<>>)
       ELSE IF s[i] = "n" THEN ScanLiteral(s, i, <<"n", "u", "l", "l">>, JsNull)
       ELSE IF s[i] = "t" THEN ScanLiteral(s, i, <<"t", "r", "u", "e">>, JsBoolean(TRUE))
       ELSE IF s[i] = "f"
       THEN ScanLiteral(s, i, <<"f", "a", "l", "s", "e">>, JsBoolean(FALSE))
       ELSE IF s[i] = "-" \/ IsDigit(s[i]) THEN ParseNumber(s, i)
       ELSE UnexpectedToken(i)

\* The elements of an array from position i, acc being those read so far.
ParseElements(s, i, acc) ==
    LET r == ParseValue(s, i)
        j == SkipWhiteSpace(s, r.pos)
    IN IF ~r.ok THEN r
       ELSE IF j <= Len(s) /\ s[j] = "," THEN ParseElements(s, j + 1, Append(acc, r.val))
       ELSE IF j <= Len(s) /\ s[j] = "]" THEN ParseOk(JsArray(Append(acc, r.val)), j + 1)
       ELSE ParseErr(S_Expected_comma_or_bracket, j)

\* The members of an object from position i, acc being those read so far:
\* none before the first member, some after a comma. A missing colon is
\* reported as such after the first property name only, and as the token at
\* the cursor after a later one.
ParseMembers(s, i, acc) ==
    LET k == SkipWhiteSpace(s, i)
        name == IF k <= Len(s) /\ s[k] = "\"" THEN ParseString(s, k + 1, <<>>)
                ELSE IF acc = <<>> THEN ParseErr(S_Expected_property_name_or_brace, k)
                ELSE ParseErr(S_Expected_double_quoted_property_name, k)
        c == SkipWhiteSpace(s, name.pos)
        r == IF c <= Len(s) /\ s[c] = ":" THEN ParseValue(s, c + 1)
             ELSE IF acc = <<>> THEN ParseErr(S_Expected_colon_after_property_name, c)
             ELSE UnexpectedToken(c)
        j == SkipWhiteSpace(s, r.pos)
    IN IF ~name.ok THEN name
       ELSE IF ~r.ok THEN r
       ELSE IF j <= Len(s) /\ s[j] = ","
       THEN ParseMembers(s, j + 1, SetProp(acc, name.val.str, r.val))
       ELSE IF j <= Len(s) /\ s[j] = "}"
       THEN ParseOk(JsObject(SetProp(acc, name.val.str, r.val)), j + 1)
       ELSE ParseErr(S_Expected_comma_or_brace, j)

\* The part of the source that the report of a token quotes: the whole of a
\* source of fewer than 21 characters, and otherwise up to 10 characters on
\* each side of the token, with dots where the source goes on.
TokenContext(source, p) ==
    LET q == <<"\"">>
        dots == <<".", ".", ".">>
    IN IF Len(source) < 21 THEN q \o source \o q
       ELSE IF p - 1 < 10 THEN q \o SubSeq(source, 1, p + 9) \o q \o dots
       ELSE IF p - 1 < Len(source) - 10
       THEN dots \o q \o SubSeq(source, p - 10, p + 9) \o q \o dots
       ELSE dots \o q \o SubSeq(source, p - 10, Len(source)) \o q

\* The message of the SyntaxError that JSON.parse throws for source, the
\* parser having reported kind with its cursor at position p; the message
\* counts positions from 0.
JsonErrorMessage(source, kind, p) ==
    IF kind # <<>> THEN kind \o S_in_JSON_at_position \o ToDigits(p - 1)
    ELSE IF p > Len(source) THEN S_Unexpected_end_of_JSON_input
    ELSE IF source[p] = "-" \/ IsDigit(source[p])
    THEN S_Unexpected_number \o S_in_JSON_at_position \o ToDigits(p - 1)
    ELSE IF source[p] = "\""
    THEN S_Unexpected_string \o S_in_JSON_at_position \o ToDigits(p - 1)
    ELSE IF source \in {S_NaN, S_Infinity, S_undefined_text, S_object_Object}
    THEN <<"\"">> \o source \o <<"\"">> \o S_is_not_valid_JSON
    ELSE S_Unexpected_token_quote \o <<source[p], "'", ",", " ">>
         \o TokenContext(source, p) \o S_is_not_valid_JSON

\* JSON.parse(text): the value, or ok = FALSE and the message of the
\* SyntaxError where it throws one.
JsonParse(text) ==
    LET r == ParseValue(text, 1)
        end == SkipWhiteSpace(text, r.pos)
    IN IF ~r.ok
       THEN [ok |-> FALSE, value |-> JsUndefined,
             message |-> JsonErrorMessage(text, r.kind, r.pos)]
       ELSE IF end <= Len(text)
       THEN [ok |-> FALSE, value |-> JsUndefined,
             message |-> S_Unexpected_non_whitespace_character \o ToDigits(end - 1)]
       ELSE [ok |-> TRUE, value |-> r.val, message |-> <<>>]

\* A character of the surrogate ranges.
IsLeadSurrogate(c) == CharCode(c) \in 55296..56319

IsTrailSurrogate(c) == CharCode(c) \in 56320..57343

\* \uxxxx with the digits of the code n in lower case.
UnicodeEscapeText(n) ==
    <<"\\", "u", LowerHexDigits[((n \div 4096) % 16) + 1],
      LowerHexDigits[((n \div 256) % 16) + 1], LowerHexDigits[((n \div 16) % 16) + 1],
      LowerHexDigits[(n % 16) + 1]>>

\* The characters of a string between the quotes of its JSON text
\* (QuoteJSONString): the quote, the backslash and the characters below 0x20
\* are escaped, and so is a surrogate that is not part of a pair.
RECURSIVE EscapeString(_)
EscapeString(s) ==
    IF s = <<>> THEN <<>>
    ELSE LET c == Head(s)
         IN IF c \in {"\"", "\\"} THEN <<"\\", c>> \o EscapeString(Tail(s))
            ELSE IF c = Backspace THEN <<"\\", "b">> \o EscapeString(Tail(s))
            ELSE IF c = "\t" THEN <<"\\", "t">> \o EscapeString(Tail(s))
            ELSE IF c = "\n" THEN <<"\\", "n">> \o EscapeString(Tail(s))
            ELSE IF c = "\f" THEN <<"\\", "f">> \o EscapeString(Tail(s))
            ELSE IF c = "\r" THEN <<"\\", "r">> \o EscapeString(Tail(s))
            ELSE IF c \in ControlChars
            THEN UnicodeEscapeText(CharCode(c)) \o EscapeString(Tail(s))
            ELSE IF IsLeadSurrogate(c) /\ Len(s) > 1 /\ IsTrailSurrogate(s[2])
            THEN <<c, s[2]>> \o EscapeString(Tail(Tail(s)))
            ELSE IF IsLeadSurrogate(c) \/ IsTrailSurrogate(c)
            THEN UnicodeEscapeText(CharCode(c)) \o EscapeString(Tail(s))
            ELSE <<c>> \o EscapeString(Tail(s))

\* The JSON text of a number.
NumberText(tenths) ==
    LET a == IF tenths < 0 THEN -tenths ELSE tenths
    IN (IF tenths < 0 THEN <<"-">> ELSE <<>>)
       \o ToDigits(a \div 10)
       \o (IF a % 10 = 0 THEN <<>> ELSE <<".", DigitChars[(a % 10) + 1]>>)

\* JSON.stringify(value) of a value other than undefined.
RECURSIVE JsonStringify(_)
RECURSIVE StringifyItems(_, _)
RECURSIVE StringifyProps(_, _)

JsonStringify(v) ==
    IF v.type = "null" THEN <<"n", "u", "l", "l">>
    ELSE IF v.type = "boolean"
    THEN (IF v.num = 1 THEN <<"t", "r", "u", "e">> ELSE <<"f", "a", "l", "s", "e">>)
    ELSE IF v.type = "number" THEN NumberText(v.num)
    ELSE IF v.type = "string" THEN <<"\"">> \o EscapeString(v.str) \o <<"\"">>
    ELSE IF v.type = "array" THEN <<"[">> \o StringifyItems(v.items, TRUE) \o <<"]">>
    ELSE <<"{">> \o StringifyProps(v.props, TRUE) \o <<"}">>

\* The elements of an array; an undefined element is written as null.
StringifyItems(items, first) ==
    IF items = <<>> THEN <<>>
    ELSE (IF first THEN <<>> ELSE <<",">>)
         \o JsonStringify(IF Head(items).type = "undefined" THEN JsNull ELSE Head(items))
         \o StringifyItems(Tail(items), FALSE)

\* The properties of an object; an undefined property is left out.
StringifyProps(props, first) ==
    IF props = <<>> THEN <<>>
    ELSE IF Head(props).value.type = "undefined" THEN StringifyProps(Tail(props), first)
    ELSE (IF first THEN <<>> ELSE <<",">>)
         \o <<"\"">> \o EscapeString(Head(props).key) \o <<"\"", ":">>
         \o JsonStringify(Head(props).value)
         \o StringifyProps(Tail(props), FALSE)

----------------------------------------------------------------------------
\* parseLspResponse and its type guards (src/lsp/lspParser.ts).

S_line ==
    <<"l", "i", "n", "e">>

S_character ==
    <<"c", "h", "a", "r", "a", "c", "t", "e", "r">>

S_start ==
    <<"s", "t", "a", "r", "t">>

S_end ==
    <<"e", "n", "d">>

S_message ==
    <<"m", "e", "s", "s", "a", "g", "e">>

S_severity ==
    <<"s", "e", "v", "e", "r", "i", "t", "y">>

S_range ==
    <<"r", "a", "n", "g", "e">>

S_code ==
    <<"c", "o", "d", "e">>

S_source ==
    <<"s", "o", "u", "r", "c", "e">>

S_Error ==
    <<"E", "r", "r", "o", "r">>

S_quoted ==
    <<"s", "a", "y", " ", "\"", "h", "i", "\"", "\\", "\n">>

S_E001 ==
    <<"E", "0", "0", "1">>

S_linter ==
    <<"l", "i", "n", "t", "e", "r">>

S_someOtherField ==
    <<"s", "o", "m", "e", "O", "t", "h", "e", "r", "F", "i", "e", "l", "d">>

S_blank ==
    <<" ", " ", " ", "\n", "\n", " ", " ", "\t", " ", " ", "\n">>

S_malformed ==
    <<"{", "d", "i", "a", "g", "n", "o", "s", "t", "i", "c", "s", ":", " ",
      "[", "}">>

S_plain_error ==
    <<"E", "r", "r", "o", "r", ":", " ", "F", "a", "i", "l", "e", "d", " ",
      "t", "o", " ", "c", "o", "n", "n", "e", "c", "t", "\n", "P", "l", "e",
      "a", "s", "e", " ", "c", "h", "e", "c", "k", ".">>

S_truncated ==
    <<"{", "\"", "d", "i", "a", "g", "n", "o", "s", "t", "i", "c", "s", "\"",
      ":", "[">>

S_pad_before ==
    <<" ", " ", "\n">>

S_pad_after ==
    <<"\n", " ", " ">>

\* String.prototype.trim: the white space and the line terminators of
\* ECMAScript.
TrimWhiteSpace ==
    {CharOfCode(n) : n \in (9..13) \cup {32, 160, 5760} \cup (8192..8202)
                            \cup {8232, 8233, 8239, 8287, 12288, 65279}}

RECURSIVE TrimStart(_)
TrimStart(str) ==
    IF str # <<>> /\ Head(str) \in TrimWhiteSpace THEN TrimStart(Tail(str)) ELSE str

RECURSIVE TrimEnd(_)
TrimEnd(str) ==
    IF str # <<>> /\ str[Len(str)] \in TrimWhiteSpace
    THEN TrimEnd(SubSeq(str, 1, Len(str) - 1))
    ELSE str

Trim(str) == TrimEnd(TrimStart(str))

\* { diagnostics: [] }
EmptyBatch == JsObject(<<[key |-> S_diagnostics, value |-> JsArray(<<>>)]>>)

\* typeof value === "object" && value !== null
IsObject(value) == TypeOf(value) = "object" /\ value.type # "null"

IsLspPosition(value) ==
    /\ IsObject(value)
    /\ TypeOf(Get(value, S_line)) = "number"
    /\ TypeOf(Get(value, S_character)) = "number"

IsLspRange(value) ==
    /\ IsObject(value)
    /\ IsLspPosition(Get(value, S_start))
    /\ IsLspPosition(Get(value, S_end))

\* Variant of IsLspDiagnostic that takes a code only if it is a string.
IsLspDiagnosticStringCode(value) ==
    /\ IsObject(value)
    /\ TypeOf(Get(value, S_message)) = "string"
    /\ TypeOf(Get(value, S_severity)) = "number"
    /\ ~(Get(value, S_severity).num < 10)
    /\ ~(Get(value, S_severity).num > 40)
    /\ IsLspRange(Get(value, S_range))
    /\ ~(Get(value, S_code).type # "undefined" /\ TypeOf(Get(value, S_code)) # "string")
    /\ ~(Get(value, S_source).type # "undefined"
          /\ TypeOf(Get(value, S_source)) # "string")

IsLspDiagnostic(value) ==
    /\ IsObject(value)
    /\ TypeOf(Get(value, S_message)) = "string"
    /\ TypeOf(Get(value, S_severity)) = "number"
    /\ ~(Get(value, S_severity).num < 10)
    /\ ~(Get(value, S_severity).num > 40)
    /\ IsLspRange(Get(value, S_range))
    /\ ~(Get(value, S_code).type # "undefined"
          /\ TypeOf(Get(value, S_code)) # "string"
          /\ TypeOf(Get(value, S_code)) # "number")
    /\ ~(Get(value, S_source).type # "undefined"
          /\ TypeOf(Get(value, S_source)) # "string")

IsLspDiagnosticResponse(value) ==
    /\ IsObject(value)
    /\ Get(value, S_diagnostics).type = "array"
    /\ \A i \in 1..Len(Get(value, S_diagnostics).items) :
           IsLspDiagnostic(Get(value, S_diagnostics).items[i])

\* What a call of parseLspResponse did: it returned value, or raised; and
\* whether it logged a warning.
ParseReturned(value, warned) == [raised |-> FALSE, value |-> value, warned |-> warned]

ParseRaised == [raised |-> TRUE, value |-> JsUndefined, warned |-> FALSE]

\* Variant of ParseLspResponse without the try/catch around JSON.parse.
ParseLspResponseUncaught(stdout) ==
    LET trimmed == Trim(stdout)
        decoded == JsonParse(trimmed)
    IN IF trimmed = <<>> THEN ParseReturned(EmptyBatch, FALSE)
       ELSE IF ~decoded.ok THEN ParseRaised
       ELSE IF ~IsLspDiagnosticResponse(decoded.value)
       THEN ParseReturned(EmptyBatch, TRUE)
       ELSE ParseReturned(decoded.value, FALSE)

\* parseLspResponse(stdout)
ParseLspResponse(stdout) ==
    LET trimmed == Trim(stdout)
        decoded == JsonParse(trimmed)
    IN IF trimmed = <<>> THEN ParseReturned(EmptyBatch, FALSE)
       ELSE IF ~decoded.ok THEN ParseReturned(EmptyBatch, TRUE)
       ELSE IF ~IsLspDiagnosticResponse(decoded.value)
       THEN ParseReturned(EmptyBatch, TRUE)
       ELSE ParseReturned(decoded.value, FALSE)

\* Values a linter may print.  An object is written with the properties
\* that are not undefined.
RECURSIVE DefinedProps(_)
DefinedProps(props) ==
    IF props = <<>> THEN <<>>
    ELSE IF Head(props).value.type = "undefined" THEN DefinedProps(Tail(props))
    ELSE <<Head(props)>> \o DefinedProps(Tail(props))

LspPosition(line, character) ==
    JsObject(DefinedProps(<<[key |-> S_line, value |-> line],
                            [key |-> S_character, value |-> character]>>))

LspRange(start, end) ==
    JsObject(DefinedProps(<<[key |-> S_start, value |-> start],
                            [key |-> S_end, value |-> end]>>))

LspDiagnostic(range, severity, code, source, message) ==
    JsObject(DefinedProps(<<[key |-> S_range, value |-> range],
                            [key |-> S_severity, value |-> severity],
                            [key |-> S_code, value |-> code],
                            [key |-> S_source, value |-> source],
                            [key |-> S_message, value |-> message]>>))

DiagnosticBatch(diagnostics) ==
    JsObject(<<[key |-> S_diagnostics, value |-> JsArray(diagnostics)]>>)

\* Bound of the exploration: diagnostics in a batch of several.
MaxBatch == 2

S_toString == <<"t", "o", "S", "t", "r", "i", "n", "g">>

\* {"toString":1}: an object with a property of its own named toString.
UnconvertibleObject == JsObject(<<[key |-> S_toString, value |-> JsInteger(1)]>>)

GoodRange ==
    LspRange(LspPosition(JsInteger(0), JsInteger(0)),
             LspPosition(JsInteger(0), JsInteger(5)))

Ranges ==
    {GoodRange,
     LspRange(LspPosition(JsInteger(10), JsInteger(2)),
              LspPosition(JsInteger(12), JsInteger(0))),
     LspRange(LspPosition(JsNumber(15), JsInteger(0)),
              LspPosition(JsInteger(2), JsInteger(0))),
     LspRange(LspPosition(JsInteger(0), JsInteger(0)),
              LspPosition(JsInteger(0), JsNumber(5))),
     LspRange(LspPosition(JsInteger(-1), JsInteger(0)),
              LspPosition(JsInteger(0), JsInteger(0))),
     LspRange(LspPosition(JsInteger(0), JsString(<<"0">>)),
              LspPosition(JsInteger(0), JsInteger(5))),
     LspRange(LspPosition(JsUndefined, JsInteger(0)),
              LspPosition(JsInteger(0), JsInteger(5))),
     LspRange(LspPosition(JsString(<<"1">>), JsInteger(0)),
              LspPosition(JsInteger(2), JsInteger(0))),
     LspRange(LspPosition(JsInteger(0), UnconvertibleObject),
              LspPosition(JsInteger(0), JsInteger(5))),
     LspRange(LspPosition(JsInteger(0), JsInteger(0)),
              LspPosition(JsInteger(0), JsArray(<<UnconvertibleObject>>))),
     LspRange(LspPosition(UnconvertibleObject, JsInteger(0)),
              LspPosition(JsInteger(0), JsInteger(5))),
     LspRange(LspPosition(JsInteger(0), JsInteger(0)), JsUndefined),
     LspRange(LspPosition(JsInteger(0), JsUndefined),
              LspPosition(JsInteger(0), JsInteger(5))),
     JsUndefined, JsNull, JsArray(<<>>)}

Severities ==
    {JsInteger(1), JsInteger(2), JsInteger(3), JsInteger(4), JsInteger(0), JsInteger(5),
     JsNumber(25), JsNumber(9), JsNumber(41), JsInteger(-1), JsString(<<"2">>),
     JsNull, JsUndefined}

Codes ==
    {JsUndefined, JsString(S_E001), JsInteger(42), JsNumber(15), JsBoolean(TRUE), JsNull}

Sources == {JsUndefined, JsString(S_linter), JsInteger(1), JsNull}

\* A text with a control character, a tab, a character above 0x7F and a
\* surrogate on its own.
S_escapes == <<"a", CharOfCode(1), "\t", CharOfCode(233), CharOfCode(55357), "b">>

Messages ==
    {JsString(S_Error), JsString(S_quoted), JsString(S_escapes), JsString(<<>>),
     JsInteger(7), JsNull, JsUndefined}

\* Elements of a diagnostics array: diagnostics that differ from a plain one
\* in one place, or in code and source, and values that are no objects.
Diagnostics ==
    {LspDiagnostic(r, JsInteger(1), JsUndefined, JsUndefined, JsString(S_Error)) :
         r \in Ranges}
    \cup {LspDiagnostic(GoodRange, v, JsUndefined, JsUndefined, JsString(S_Error)) :
              v \in Severities}
    \cup {LspDiagnostic(GoodRange, JsInteger(2), c, src, JsString(S_Error)) :
              c \in Codes, src \in Sources}
    \cup {LspDiagnostic(GoodRange, JsInteger(4), JsUndefined, JsUndefined, m) :
              m \in Messages}
    \cup {JsNull, JsString(S_Error), JsInteger(1), JsArray(<<>>)}

\* Elements of the batches of several diagnostics.
FewDiagnostics ==
    {LspDiagnostic(GoodRange, JsInteger(1), JsUndefined, JsUndefined, JsString(S_Error)),
     LspDiagnostic(GoodRange, JsInteger(2), JsInteger(42), JsString(S_linter),
                   JsString(S_quoted)),
     LspDiagnostic(GoodRange, JsInteger(5), JsUndefined, JsUndefined, JsString(S_Error)),
     LspDiagnostic(GoodRange, JsNumber(25), JsUndefined, JsUndefined, JsString(S_Error))}

\* Decoded values of the texts a linter may print.
Payloads ==
    {DiagnosticBatch(<<>>)}
    \cup {DiagnosticBatch(<<d>>) : d \in Diagnostics}
    \cup UNION {{DiagnosticBatch(b) : b \in [1..n -> FewDiagnostics]} : n \in 2..MaxBatch}
    \cup {JsNull, JsArray(<<>>), JsObject(<<>>), JsInteger(1), JsString(S_Error),
          JsObject(<<[key |-> S_diagnostics, value |-> JsNull]>>),
          JsObject(<<[key |-> S_diagnostics, value |-> JsObject(<<>>)]>>),
          JsObject(<<[key |-> S_someOtherField, value |-> JsBoolean(TRUE)]>>)}

\* White space around the text.
Paddings ==
    {[before |-> <<>>, after |-> <<>>], [before |-> S_pad_before, after |-> S_pad_after]}

\* An empty batch with three more members, two of them with array indices
\* as names: {"b":1,"10":2,"9":3,"diagnostics":[]}
S_index_keys ==
    <<"{", "\"", "b", "\"", ":", "1", ",", "\"", "1", "0", "\"", ":", "2", ",",
      "\"", "9", "\"", ":", "3", ",", "\"", "d", "i", "a", "g", "n", "o", "s", "t",
      "i", "c", "s", "\"", ":", "[", "]", "}">>

\* Texts that are not the encoding of a payload: texts that are not JSON and
\* a batch with members of its own.
OtherTexts ==
    {<<>>, S_blank, S_malformed, S_plain_error, S_truncated, S_open_brace, S_index_keys}

\* The inputs of parseLspResponse: the JSON text of a payload with white
\* space around it, or a text that is not JSON.
ParserInputs ==
    {[input |-> Some(v),
      stdout |-> Some(pad.before \o JsonStringify(v) \o pad.after),
      result |-> Undefined] : v \in Payloads, pad \in Paddings}
    \cup {[input |-> Undefined, stdout |-> Some(t), result |-> Undefined] :
              t \in OtherTexts}

----------------------------------------------------------------------------
\* lintDocument: from the data of a successful result to the diagnostic
\* collection.

S_fanuc_tp ==
    <<"f", "a", "n", "u", "c", "-", "t", "p">>

\* Provider id, the source of every diagnostic of the collection.
FANUC_TP_PROVIDER_ID == S_fanuc_tp

\* The lengths of the lines of the document linted.
DocumentLines == <<10, 0, 5>>

\* mapLspSeverity(severity): a switch with strict equality.
MapLspSeverity(severity) ==
    IF severity = JsInteger(1) THEN "Error"
    ELSE IF severity = JsInteger(2) THEN "Warning"
    ELSE IF severity = JsInteger(3) THEN "Information"
    ELSE IF severity = JsInteger(4) THEN "Hint"
    ELSE "Warning"

\* Numbers the conversion computes with: NaN, an infinity, or the finite
\* number tenths / 10; and the outcome of a conversion that throws.
TypeError == [kind |-> "TypeError", tenths |-> 0]

NaN == [kind |-> "NaN", tenths |-> 0]

Finite(tenths) == [kind |-> "finite", tenths |-> tenths]

Infinite(negative) == [kind |-> IF negative THEN "-Infinity" ELSE "Infinity", tenths |-> 0]

\* The value of the digits of s from position i in the given radix, after n,
\* or -1 where a character is no digit of the radix or there is none.
RECURSIVE RadixValue(_, _, _, _)
RadixValue(s, i, radix, n) ==
    IF i > Len(s) THEN (IF i = 3 THEN -1 ELSE n)
    ELSE IF IsHexDigit(s[i]) /\ HexValue(s[i]) < radix
    THEN RadixValue(s, i + 1, radix, radix * n + HexValue(s[i]))
    ELSE -1

\* StringToNumber(str): white space around the literal is dropped; the empty
\* text is 0, a literal with the prefix 0x, 0o or 0b an integer, and a
\* decimal literal (sign, digits, fraction, exponent, Infinity) its number;
\* any other text is NaN.
StringToNumber(str) ==
    LET t == Trim(str)
        prefix == IF Len(t) >= 2 /\ t[1] = "0" THEN t[2] ELSE ""
        radix == IF prefix \in {"x", "X"} THEN 16
                 ELSE IF prefix \in {"o", "O"} THEN 8
                 ELSE IF prefix \in {"b", "B"} THEN 2
                 ELSE 0
        signed == t # <<>> /\ t[1] \in {"+", "-"}
        neg == t # <<>> /\ t[1] = "-"
        j == IF signed THEN 2 ELSE 1
        int == ParseDigits(t, j, 0)
        hasFrac == int.pos <= Len(t) /\ t[int.pos] = "."
        frac == IF hasFrac THEN ParseDigits(t, int.pos + 1, 0)
                ELSE [n |-> 0, pos |-> int.pos]
        places == IF hasFrac THEN frac.pos - (int.pos + 1) ELSE 0
        hasExp == frac.pos <= Len(t) /\ t[frac.pos] \in {"e", "E"}
        expNeg == hasExp /\ frac.pos + 1 <= Len(t) /\ t[frac.pos + 1] = "-"
        expStart == IF hasExp /\ frac.pos + 1 <= Len(t) /\ t[frac.pos + 1] \in {"-", "+"}
                    THEN frac.pos + 2 ELSE frac.pos + 1
        exp == IF hasExp THEN ParseDigits(t, expStart, 0) ELSE [n |-> 0, pos |-> frac.pos]
        mantissa == int.n * Pow10(places) + frac.n
        power == (IF expNeg THEN -exp.n ELSE exp.n) - places + 1
    IN IF t = <<>> THEN Finite(0)
       ELSE IF radix # 0
       THEN (IF RadixValue(t, 3, radix, 0) < 0 THEN NaN
             ELSE Finite(10 * RadixValue(t, 3, radix, 0)))
       ELSE IF SubSeq(t, j, Len(t)) = S_Infinity THEN Infinite(neg)
       ELSE IF int.pos = j /\ places = 0 THEN NaN
       ELSE IF hasExp /\ exp.pos = expStart THEN NaN
       ELSE IF exp.pos <= Len(t) THEN NaN
       ELSE Finite((IF neg THEN -1 ELSE 1) * Tenths(mantissa, power))

\* The conversion of value to a primitive throws a TypeError ("Cannot convert
\* object to primitive value"): value is an object with a property of its own
\* named toString, which is not callable and hides Object.prototype.toString,
\* or an array that joins such a value.
RECURSIVE ToPrimitiveThrows(_)
ToPrimitiveThrows(value) ==
    \/ /\ value.type = "object"
       /\ \E i \in 1..Len(value.props) : value.props[i].key = S_toString
    \/ /\ value.type = "array"
       /\ \E i \in 1..Len(value.items) : ToPrimitiveThrows(value.items[i])

\* ToNumber(value), the conversion Math.min applies to an argument: an array
\* is converted by way of the text of its elements joined with commas, any
\* other object by way of "[object Object]".
RECURSIVE ToNumber(_)
ToNumber(value) ==
    IF ToPrimitiveThrows(value) THEN TypeError
    ELSE IF value.type = "undefined" THEN NaN
    ELSE IF value.type = "null" THEN Finite(0)
    ELSE IF value.type = "boolean" THEN Finite(10 * value.num)
    ELSE IF value.type = "number" THEN Finite(value.num)
    ELSE IF value.type = "string" THEN StringToNumber(value.str)
    ELSE IF value.type = "array"
    THEN IF value.items = <<>> THEN Finite(0)
         ELSE IF Len(value.items) > 1 THEN NaN
         ELSE IF value.items[1].type \in {"undefined", "null"} THEN Finite(0)
         ELSE IF value.items[1].type \in {"boolean", "object"} THEN NaN
         ELSE ToNumber(value.items[1])
    ELSE NaN

\* Math.max(0, Math.min(x, hi)), hi being an integer: NaN stays NaN, and a
\* conversion that throws ends the call.
Clamp(x, hi) ==
    IF x.kind = "TypeError" THEN TypeError
    ELSE IF x.kind = "NaN" THEN NaN
    ELSE IF x.kind = "-Infinity" THEN Finite(0)
    ELSE IF x.kind = "Infinity" \/ x.tenths > 10 * hi
    THEN Finite(IF hi < 0 THEN 0 ELSE 10 * hi)
    ELSE Finite(IF x.tenths < 0 THEN 0 ELSE x.tenths)

\* document.lineAt(line) throws: line is no integer from 0 to the last line
\* (or there is no line, the conversion having thrown before).
LineAtThrows(line, lines) ==
    \/ line.kind # "finite"
    \/ line.tenths % 10 # 0
    \/ line.tenths < 0
    \/ line.tenths >= 10 * Len(lines)

\* Position.isBefore: a comparison with NaN is false.
IsBefore(line, char, otherLine, otherChar) ==
    \/ line < otherLine
    \/ /\ line = otherLine
       /\ char.kind = "finite" /\ otherChar.kind = "finite"
       /\ char.tenths < otherChar.tenths

\* new vscode.Range(startLine, startCharacter, endLine, endCharacter): start
\* and end are exchanged unless start is before end.
VscodeRange(startLine, startChar, endLine, endChar) ==
    IF IsBefore(startLine, startChar, endLine, endChar)
    THEN [startLine |-> startLine, startChar |-> startChar,
          endLine |-> endLine, endChar |-> endChar]
    ELSE [startLine |-> endLine, startChar |-> endChar,
          endLine |-> startLine, endChar |-> startChar]

\* Reading a property of value throws a TypeError.
ReadThrows(value) == value.type \in {"undefined", "null"}

\* !value: undefined, null, false, 0 and the empty string.
IsFalsy(value) ==
    \/ value.type \in {"undefined", "null"}
    \/ value.type \in {"boolean", "number"} /\ value.num = 0
    \/ value.type = "string" /\ value.str = <<>>

\* The line numbers toVscodeDiagnostic computes for a position of lspDiag.
StartLine(lspDiag, lines) ==
    Clamp(ToNumber(Get(Get(Get(lspDiag, S_range), S_start), S_line)), Len(lines) - 1)

EndLine(lspDiag, lines) ==
    Clamp(ToNumber(Get(Get(Get(lspDiag, S_range), S_end), S_line)), Len(lines) - 1)

\* The character toVscodeDiagnostic computes for a position on the line it
\* computed for it.
Character(position, line, lines) ==
    Clamp(ToNumber(Get(position, S_character)), lines[(line.tenths \div 10) + 1])

\* toVscodeDiagnostic(lspDiag, document) throws: a property of undefined or
\* null is read, Math.min is given a line or a character it cannot convert
\* (the line it leaves is none that LineAtThrows accepts; ToNumber of a
\* character is TypeError exactly where ToPrimitiveThrows holds),
\* document.lineAt is given a line that is no integer, or new
\* vscode.Diagnostic is given a message that is falsy ("message must be
\* set").
ToVscodeDiagnosticThrows(lspDiag, lines) ==
    \/ ReadThrows(lspDiag)
    \/ ReadThrows(Get(lspDiag, S_range))
    \/ ReadThrows(Get(Get(lspDiag, S_range), S_start))
    \/ ReadThrows(Get(Get(lspDiag, S_range), S_end))
    \/ LineAtThrows(StartLine(lspDiag, lines), lines)
    \/ LineAtThrows(EndLine(lspDiag, lines), lines)
    \/ ToPrimitiveThrows(Get(Get(Get(lspDiag, S_range), S_start), S_character))
    \/ ToPrimitiveThrows(Get(Get(Get(lspDiag, S_range), S_end), S_character))
    \/ IsFalsy(Get(lspDiag, S_message))

\* toVscodeDiagnostic(lspDiag, document) where it does not throw, for a
\* document with the given lines.
ToVscodeDiagnostic(lspDiag, lines) ==
    LET range == Get(lspDiag, S_range)
        startLine == StartLine(lspDiag, lines)
        endLine == EndLine(lspDiag, lines)
        startChar == Character(Get(range, S_start), startLine, lines)
        endChar == Character(Get(range, S_end), endLine, lines)
    IN [range |-> VscodeRange(startLine.tenths \div 10, startChar,
                              endLine.tenths \div 10, endChar),
        message |-> Get(lspDiag, S_message),
        severity |-> MapLspSeverity(Get(lspDiag, S_severity)),
        code |-> Get(lspDiag, S_code),
        source |-> FANUC_TP_PROVIDER_ID]

\* What lintDocument did with the data of a result: it set the collection
\* to diagnostics, or an exception was caught and logged.
PipelineSet(diagnostics) == [threw |-> FALSE, set |-> Some(diagnostics)]

PipelineThrew == [threw |-> TRUE, set |-> Undefined]

\* Variant of HandleLintData that hands the data to the validator first.
HandleLintDataValidated(data, lines) ==
    IF ~IsLspDiagnosticResponse(data) THEN PipelineSet(<<>>)
    ELSE IF \E i \in 1..Len(Get(data, S_diagnostics).items) :
                ToVscodeDiagnosticThrows(Get(data, S_diagnostics).items[i], lines)
    THEN PipelineThrew
    ELSE PipelineSet([i \in 1..Len(Get(data, S_diagnostics).items) |->
                         ToVscodeDiagnostic(Get(data, S_diagnostics).items[i], lines)])

\* lintDocument from "const { diagnostics } = result.data" to
\* diagnosticCollection.set, inside its try/catch.
HandleLintData(data, lines) ==
    LET diagnostics == Get(data, S_diagnostics)
    IN IF ReadThrows(data) THEN PipelineThrew
       ELSE IF diagnostics.type # "array" THEN PipelineThrew
       ELSE IF \E i \in 1..Len(diagnostics.items) :
                   ToVscodeDiagnosticThrows(diagnostics.items[i], lines)
       THEN PipelineThrew
       ELSE PipelineSet([i \in 1..Len(diagnostics.items) |->
                            ToVscodeDiagnostic(diagnostics.items[i], lines)])

\* Data of a successful lint result: the decoded bodies.
LintData == Payloads

----------------------------------------------------------------------------
\* A thrown or rejected value: an Error object with its name and message, or
\* a value that is not an Error.
ErrorValue(name, message) == [isError |-> TRUE, name |-> name, message |-> message]

NonErrorValue == [isError |-> FALSE, name |-> "", message |-> <<>>]

\* A value that is not an Error and is falsy: null, 0, '' or false.
FalsyValue == [isError |-> FALSE, name |-> "falsy", message |-> <<>>]

\* The reason of AbortController.abort() without argument: a DOMException
\* named AbortError.
DefaultAbortReason == ErrorValue("AbortError", S_This_operation_was_aborted)

\* The reason of a signal made by AbortSignal.timeout(ms).
TimeoutReason == ErrorValue("TimeoutError", S_aborted_due_to_timeout)

\* Reasons a caller may abort its signal with: none (the default), the
\* TimeoutError of AbortSignal.timeout, or a value that is not an Error,
\* truthy or falsy.
AbortReasons == {Undefined, Some(TimeoutReason), Some(NonErrorValue), Some(FalsyValue)}

\* What the read of a body rejects with once the signal sig given to fetch
\* is aborted: the reason of the signal, or a new DOMException named
\* AbortError where the reason is falsy.
AbortRejection(sig) ==
    IF ValueOf(sig.reason) = FalsyValue
    THEN ErrorValue("AbortError", S_The_operation_was_aborted)
    ELSE ValueOf(sig.reason)

\* Values fetch rejects with when the request fails without an abort.
FetchErrors ==
    {ErrorValue("TypeError", S_fetch_failed),
     ErrorValue("Error", S_network_timeout),
     ErrorValue("Error", S_socket_hang_up),
     NonErrorValue}

\* Values response.json() / response.text() reject with when the connection
\* is lost while the body streams.
BodyErrors ==
    [json |-> {ErrorValue("TypeError", S_terminated)},
     text |-> {ErrorValue("TypeError", S_terminated)}]

\* U+FEFF, the byte order mark.
ByteOrderMark == CharOfCode(65279)

\* Bodies a response carries, written as the characters their bytes encode:
\* nothing, an empty batch, null, a truncated JSON text, a text with white
\* space around it, and an empty batch after one, two and three byte order
\* marks.
BodyTexts ==
    {<<>>, S_empty_batch, S_null, S_open_brace, S_formatted,
     <<ByteOrderMark>> \o S_empty_batch,
     <<ByteOrderMark, ByteOrderMark>> \o S_empty_batch,
     <<ByteOrderMark, ByteOrderMark, ByteOrderMark>> \o S_empty_batch}

\* The text that response.json() and response.text() decode a body to: the
\* bytes of a byte order mark at the start of the body are dropped, and the
\* decoder of UTF-8 drops one more mark at the start of what is left.
DecodeBody(text) ==
    LET Drop(t) == IF t # <<>> /\ Head(t) = ByteOrderMark THEN Tail(t) ELSE t
    IN Drop(Drop(text))

\* A read of the body that ended: text is the body if it arrived whole, and
\* the promise resolved with value or rejected with error.
BodyResolved(text, value) ==
    [ok |-> TRUE, text |-> Some(text), value |-> Some(value), error |-> Undefined]

BodyRejected(text, error) ==
    [ok |-> FALSE, text |-> text, value |-> Undefined, error |-> Some(error)]

\* response.json() of a response whose body is text: JSON.parse of the
\* decoded body.
ResponseJson(text) ==
    LET p == JsonParse(DecodeBody(text))
    IN IF p.ok THEN BodyResolved(text, p.value)
       ELSE BodyRejected(Some(text), ErrorValue("SyntaxError", p.message))

\* response.text() of a response whose body is text: the decoded body.
ResponseText(text) == BodyResolved(text, JsString(DecodeBody(text)))

\* Response statuses and Content-Type headers received.
Statuses == {200, 204, 304, 399, 400, 404, 429, 499, 500, 503, 599, 600}

ContentTypes ==
    {Undefined, Some(S_application_json), Some(S_json_utf8), Some(S_text_utf8),
     Some(S_application_xml), Some(S_Application_JSON)}

\* Response.ok
ResponseOk(status) == status >= 200 /\ status <= 299

\* timeoutMs options of the constructor and of a call.
ClientTimeouts == {Undefined, Some(5000)}

CallTimeouts == {Undefined, Some(0), Some(1000)}

\* The client methods and the endpoint each one requests.
Methods == {"check", "lint", "format", "compliance"}

Endpoint(method) ==
    CASE method = "check" -> "/check"
      [] method = "lint" -> "/check"
      [] method = "format" -> "/format"
      [] method = "compliance" -> "/compliance"

\* A message: a literal of the source followed by an interpolated string.
Message(literal, tail) == [literal |-> literal, tail |-> tail]

\* new ShiftresetApiError(code, message, options)
ShiftresetApiError(code, message, options) ==
    [name |-> "ShiftresetApiError", code |-> code, message |-> message,
     statusCode |-> options.statusCode, cause |-> options.cause]

NoOptions == [statusCode |-> Undefined, cause |-> Undefined]

\* Variant of IsRetriable that looks at the status code as well.
IsRetriableByStatus(e) ==
    \/ e.code = "NETWORK_ERROR"
    \/ e.code = "RATE_LIMITED"
    \/ e.code = "SERVER_ERROR"
    \/ (e.statusCode # Undefined /\ ValueOf(e.statusCode) >= 500)

\* get isRetriable()
IsRetriable(e) ==
    \/ e.code = "NETWORK_ERROR"
    \/ e.code = "RATE_LIMITED"
    \/ e.code = "SERVER_ERROR"

\* ApiResult<T>, and a promise that rejects with a value instead of resolving.
NoResult == [tag |-> "none", data |-> Undefined, error |-> Undefined, thrown |-> Undefined]

Success(d) == [NoResult EXCEPT !.tag = "success", !.data = Some(d)]

Failure(e) == [NoResult EXCEPT !.tag = "failure", !.error = Some(e)]

Rejected(v) == [NoResult EXCEPT !.tag = "rejected", !.thrown = Some(v)]

\* new ShiftresetClient(options); the object remembers, for the properties,
\* the timeoutMs option it was constructed with.
ShiftresetClient(options) ==
    [defaultTimeoutMs |-> Coalesce(options.timeoutMs, DEFAULT_TIMEOUT_MS),
     timeoutMs |-> options.timeoutMs]

----------------------------------------------------------------------------
\* The query of a compliance request.

S_lsp ==
    <<"l", "s", "p">>

S_select ==
    <<"s", "e", "l", "e", "c", "t">>

S_ignore ==
    <<"i", "g", "n", "o", "r", "e">>

S_standard ==
    <<"s", "t", "a", "n", "d", "a", "r", "d">>

S_true ==
    <<"t", "r", "u", "e">>

S_false ==
    <<"f", "a", "l", "s", "e">>

S_rule1 ==
    <<"r", "u", "l", "e", "1">>

S_rule2 ==
    <<"r", "u", "l", "e", "2">>

S_error ==
    <<"e", "r", "r", "o", "r">>

S_iso ==
    <<"I", "S", "O", " ", "1", "0", "2", "1", "8", "-", "1", ":", "2", "0", "1", "1">>

\* Bound of the exploration: rule ids in a select or ignore list.
MaxRules == 2

\* Rule ids a caller passes; the empty string is one of them.
RuleIds == {<<>>, S_rule1, S_rule2}

RuleLists == UNION {[1..n -> RuleIds] : n \in 0..MaxRules}

\* ComplianceOptions values (timeoutMs and signal apart).
ComplianceOptionValues ==
    [lsp : {Undefined, Some(TRUE), Some(FALSE)},
     select : {Undefined} \cup {Some(l) : l \in RuleLists},
     ignore : {Undefined} \cup {Some(l) : l \in RuleLists},
     severity : {Undefined, Some(<<>>), Some(S_error)},
     standard : {Undefined, Some(<<>>), Some(S_iso)}]

\* String(b) of a boolean.
BooleanString(b) == IF b THEN S_true ELSE S_false

\* Array.prototype.join(sep)
RECURSIVE Join(_, _)
Join(list, sep) ==
    IF list = <<>> THEN <<>>
    ELSE IF Len(list) = 1 THEN list[1]
    ELSE list[1] \o sep \o Join(Tail(list), sep)

\* if (s) of an optional string: neither undefined nor empty.
Truthy(s) == s # Undefined /\ ValueOf(s) # <<>>

\* The queryParams object the compliance method builds from its options.
ComplianceQueryParams(options) ==
    LET lsp == <<[key |-> S_lsp,
                  value |-> BooleanString(Coalesce(options.lsp, TRUE))]>>
        select == IF options.select # Undefined /\ Len(ValueOf(options.select)) > 0
                  THEN SetProp(lsp, S_select, Join(ValueOf(options.select), <<",">>))
                  ELSE lsp
        ignore == IF options.ignore # Undefined /\ Len(ValueOf(options.ignore)) > 0
                  THEN SetProp(select, S_ignore, Join(ValueOf(options.ignore), <<",">>))
                  ELSE select
        severity == IF Truthy(options.severity)
                    THEN SetProp(ignore, S_severity, ValueOf(options.severity))
                    ELSE ignore
    IN IF Truthy(options.standard)
       THEN SetProp(severity, S_standard, ValueOf(options.standard))
       ELSE severity

\* The application/x-www-form-urlencoded serialization of a character, as
\* URLSearchParams writes it: letters, digits and * - . _ stay, a space
\* becomes +, every other character is percent-encoded; a surrogate on its
\* own is written as U+FFFD.
FormUrlEncodeChar(c) ==
    LET n == CharCode(c)
    IN IF c = " " THEN <<"+">>
       ELSE IF \/ n \in 48..57 \/ n \in 65..90 \/ n \in 97..122
               \/ c \in {"*", "-", ".", "_"}
       THEN <<c>>
       ELSE PercentEncode(IF n \in 55296..57343 THEN 65533 ELSE n)

\* The serialization of a string: a pair of surrogates is one code point.
RECURSIVE FormUrlEncode(_)
FormUrlEncode(str) ==
    IF str = <<>> THEN <<>>
    ELSE IF Len(str) > 1 /\ IsLeadSurrogate(str[1]) /\ IsTrailSurrogate(str[2])
    THEN PercentEncode(65536 + ((CharCode(str[1]) - 55296) * 1024)
                       + (CharCode(str[2]) - 56320))
         \o FormUrlEncode(Tail(Tail(str)))
    ELSE FormUrlEncodeChar(Head(str)) \o FormUrlEncode(Tail(str))

\* url.searchParams after url.searchParams.set(key, value) for every entry
\* of queryParams, serialized as in url.toString().
RECURSIVE UrlSearch(_)
UrlSearch(queryParams) ==
    IF queryParams = <<>> THEN <<>>
    ELSE FormUrlEncode(Head(queryParams).key) \o <<"=">>
         \o FormUrlEncode(Head(queryParams).value)
         \o (IF Len(queryParams) = 1 THEN <<>> ELSE <<"&">>)
         \o UrlSearch(Tail(queryParams))

\* Variant of CreateHttpError that tests the 4xx range before 429.
CreateHttpErrorRangeFirst(status, statusText) ==
    IF status >= 500
    THEN ShiftresetApiError("SERVER_ERROR", Message("Server error: ", statusText),
                            [NoOptions EXCEPT !.statusCode = Some(status)])
    ELSE IF status >= 400
    THEN ShiftresetApiError("CLIENT_ERROR", Message("Client error: ", statusText),
                            [NoOptions EXCEPT !.statusCode = Some(status)])
    ELSE IF status = 429
    THEN ShiftresetApiError("RATE_LIMITED",
                            Message("Rate limit exceeded. Please try again later.", <<>>),
                            [NoOptions EXCEPT !.statusCode = Some(status)])
    ELSE ShiftresetApiError("INVALID_RESPONSE",
                            Message("Unexpected HTTP status: ",
                                    ToDigits(status) \o <<" ">> \o statusText),
                            [NoOptions EXCEPT !.statusCode = Some(status)])

\* createHttpError(status, statusText)
CreateHttpError(status, statusText) ==
    IF status = 429
    THEN ShiftresetApiError("RATE_LIMITED",
                            Message("Rate limit exceeded. Please try again later.", <<>>),
                            [NoOptions EXCEPT !.statusCode = Some(status)])
    ELSE IF status >= 500
    THEN ShiftresetApiError("SERVER_ERROR", Message("Server error: ", statusText),
                            [NoOptions EXCEPT !.statusCode = Some(status)])
    ELSE IF status >= 400
    THEN ShiftresetApiError("CLIENT_ERROR", Message("Client error: ", statusText),
                            [NoOptions EXCEPT !.statusCode = Some(status)])
    ELSE ShiftresetApiError("INVALID_RESPONSE",
                            Message("Unexpected HTTP status: ",
                                    ToDigits(status) \o <<" ">> \o statusText),
                            [NoOptions EXCEPT !.statusCode = Some(status)])

\* handleFetchError(error)
HandleFetchError(error) ==
    IF error.isError
    THEN IF error.name = "AbortError"
         THEN ShiftresetApiError("ABORTED", Message("Request was cancelled", <<>>),
                                 [NoOptions EXCEPT !.cause = Some(error)])
         ELSE IF \/ error.name = "TypeError"
                 \/ Includes(error.message, S_network)
                 \/ Includes(error.message, S_fetch)
         THEN ShiftresetApiError(
                  "NETWORK_ERROR",
                  Message("Network error: Unable to reach the API server. Check your internet connection.", <<>>),
                  [NoOptions EXCEPT !.cause = Some(error)])
         ELSE ShiftresetApiError("NETWORK_ERROR", Message("", error.message),
                                 [NoOptions EXCEPT !.cause = Some(error)])
    ELSE ShiftresetApiError(
             "NETWORK_ERROR",
             Message("An unknown error occurred while making the request", <<>>),
             NoOptions)

\* An AbortSignal: aborted, its reason, and the number of "abort" events it
\* has dispatched.
NewSignal == [aborted |-> FALSE, reason |-> Undefined, events |-> 0]

\* AbortController.abort(reason) on the controller of sig: only the first
\* call aborts the signal, with the given reason or the default one.
Abort(sig, reason) ==
    IF sig.aborted
    THEN sig
    ELSE [aborted |-> TRUE,
          reason |-> Some(Coalesce(reason, DefaultAbortReason)),
          events |-> sig.events + 1]

\* combineAbortSignals(caller, timeout): the signal of a new controller and
\* the source signals it listens to.
CombineAbortSignals(caller, timeout) ==
    IF caller.aborted
    THEN [signal |-> Abort(NewSignal, caller.reason), listeners |-> {}]
    ELSE IF timeout.aborted
    THEN [signal |-> Abort(NewSignal, timeout.reason), listeners |-> {"caller"}]
    ELSE [signal |-> NewSignal, listeners |-> {"caller", "timeout"}]

\* The timer of a call.
NoCallTimers == [h \in {"timeoutId"} |-> NoTimer]

\* No call made yet.
NoCall ==
    [pc |-> "idle", seq |-> 0, method |-> "", endpoint |-> "",
     timeoutMs |-> Undefined, effectiveTimeout |-> 0, timers |-> NoCallTimers,
     hasSignal |-> FALSE, callerSignal |-> NewSignal, timeoutSignal |-> NewSignal,
     combined |-> NewSignal, listeners |-> {},
     response |-> Undefined, fetchError |-> Undefined,
     reading |-> "", body |-> Undefined, result |-> NoResult]

\* No error object built yet.
NoProbe == [error |-> Undefined, isRetriable |-> Undefined]

\* No request URL built yet.
NoRequest == [options |-> Undefined, url |-> Undefined]

\* No lint result received yet.
NoPipeline == [data |-> Undefined, outcome |-> Undefined]

\* parseLspResponse not called yet.
NoParsed == [input |-> Undefined, stdout |-> Undefined, result |-> Undefined]

----------------------------------------------------------------------------
\* The fields of a newly constructed ExtensionManager, the documents of D
\* being open in the editor.
InitManager(D) ==
    /\ now = 0
    /\ lastTrigger = [k \in Docs |-> 0]
    /\ version = [k \in Docs |-> 1]
    /\ open = [k \in Docs |-> k \in D]
    /\ nextId = 1
    /\ pendingLints = EmptyMap
    /\ timers = [i \in Ids |-> NoTimer]
    /\ tokens = [i \in Ids |-> NoToken]
    /\ lints = [i \in Ids |-> NoLint]
    /\ compliance = [i \in Ids |-> NoCompliance]
    /\ fixes = [i \in Ids |-> NoFix]
    /\ formats = [i \in Ids |-> NoFormat]
    /\ diagnosticCollection = [k \in Docs |-> NoDiagnostics]
    /\ complianceDiagnosticCollection = [k \in Docs |-> NoDiagnostics]
    /\ activeLintCount = 0
    /\ statusBarVisible = FALSE
    /\ errorMessages = {}
    /\ disposed = FALSE

\* The state after the ExtensionManager is constructed: its client is
\* new ShiftresetClient(), and no call has been made.
InitOpen(D) ==
    /\ InitManager(D)
    /\ client = ShiftresetClient([timeoutMs |-> Undefined])
    /\ call = NoCall
    /\ probe = NoProbe
    /\ request = NoRequest
    /\ parsed = NoParsed
    /\ pipeline = NoPipeline

\* One document open.
Init == InitOpen({"a.ls"})

\* Both documents open.
InitAll == InitOpen(Docs)

----------------------------------------------------------------------------
\* The environment: time passes, the user edits a document.

Tick ==
    /\ ~MicrotaskPending
    /\ now + Quantum <= MaxTime
    /\ now' = now + Quantum
    /\ UNCHANGED <<client, call, probe, request, parsed, pipeline, disposed, fixes, formats>>
    /\ UNCHANGED <<lastTrigger, version, open, nextId, pendingLints, timers, tokens, lints,
                   compliance, diagnosticCollection,
                   complianceDiagnosticCollection, activeLintCount,
                   statusBarVisible, errorMessages>>

Edit(k) ==
    /\ ~MicrotaskPending
    /\ open[k]
    /\ version[k] < MaxVersion
    /\ version' = [version EXCEPT ![k] = @ + 1]
    /\ UNCHANGED <<client, call, probe, request, parsed, pipeline, disposed, fixes, formats>>
    /\ UNCHANGED <<now, lastTrigger, open, nextId, pendingLints, timers, tokens,
                   lints, compliance, diagnosticCollection,
                   complianceDiagnosticCollection, activeLintCount,
                   statusBarVisible, errorMessages>>

----------------------------------------------------------------------------
\* Variant of ScheduleLint that leaves a pending entry of the key alone.
ScheduleLintKeepPending(k) ==
    /\ ~disposed
    /\ ~MicrotaskPending
    /\ open[k]
    /\ nextId <= MaxOps
    /\ now + DEBOUNCE_MS <= MaxTime
    /\ tokens' = [tokens EXCEPT ![nextId] = NewToken]
    /\ timers' = SetTimeout(timers, nextId, k, now, DEBOUNCE_MS)
    /\ pendingLints' = MapSet(pendingLints, k, [timer |-> nextId, cancel |-> nextId])
    /\ nextId' = nextId + 1
    /\ lastTrigger' = [lastTrigger EXCEPT ![k] = now]
    /\ UNCHANGED <<client, call, probe, request, parsed, pipeline, disposed, fixes, formats>>
    /\ UNCHANGED <<now, version, open, lints, compliance, diagnosticCollection,
                   complianceDiagnosticCollection, activeLintCount,
                   statusBarVisible, errorMessages>>

\* scheduleLint(document), called by onDidSaveTextDocument.
ScheduleLint(k) ==
    /\ ~disposed
    /\ ~MicrotaskPending
    /\ open[k]
    /\ nextId <= MaxOps
    /\ now + DEBOUNCE_MS <= MaxTime      \* the timer comes due within the bound
    /\ LET id == nextId
           has == MapHas(pendingLints, k)
           tm1 == IF has THEN ClearTimeout(timers, pendingLints[k].timer)
                         ELSE timers
           ln1 == IF has THEN FireCancellation(lints, tokens, pendingLints[k].cancel)
                         ELSE lints
           tk1 == IF has
                  THEN TokenDispose(TokenCancel(tokens, pendingLints[k].cancel),
                                    pendingLints[k].cancel)
                  ELSE tokens
       IN /\ tokens' = [tk1 EXCEPT ![id] = NewToken]
          /\ timers' = SetTimeout(tm1, id, k, now, DEBOUNCE_MS)
          /\ lints' = ln1
          /\ pendingLints' = MapSet(pendingLints, k, [timer |-> id, cancel |-> id])
    /\ nextId' = nextId + 1
    /\ lastTrigger' = [lastTrigger EXCEPT ![k] = now]
    /\ UNCHANGED <<client, call, probe, request, parsed, pipeline, disposed, fixes, formats>>
    /\ UNCHANGED <<now, version, open, compliance, diagnosticCollection,
                   complianceDiagnosticCollection, activeLintCount,
                   statusBarVisible, errorMessages>>

\* lintDocument(document, tokenSource) up to its first suspension point (the
\* await of client.lint), starting from token sources tk and invocations ln.
\* owned: no tokenSource was passed and the invocation creates its own.
LintDocument(k, id, owned, tk, ln) ==
    LET tk0 == IF owned THEN [tk EXCEPT ![id] = NewToken] ELSE tk
        \* show() of a disposed StatusBarItem shows nothing
        shown == [ShowLintingStatus(Status) EXCEPT !.visible = ~disposed]
        \* document.getText() is read after the cancellation test; the text of
        \* a document is identified by the version it belongs to
        inv(st) == [state |-> st, doc |-> k, documentVersion |-> version[k],
                    content |-> IF st = "running" THEN version[k] ELSE 0,
                    owned |-> owned, aborted |-> FALSE]
    IN IF tk0[id].cancelled
       THEN /\ lints' = [ln EXCEPT ![id] = inv("skipped")]
            /\ tokens' = IF owned THEN TokenDispose(tk0, id) ELSE tk0
            /\ activeLintCount' = HideLintingStatus(shown).count
            /\ statusBarVisible' = HideLintingStatus(shown).visible
       ELSE /\ lints' = [ln EXCEPT ![id] = inv("running")]
            /\ tokens' = tk0
            /\ activeLintCount' = shown.count
            /\ statusBarVisible' = shown.visible

\* Variant of TimerFire that leaves the pending entry in the map.
TimerFireKeepEntry(id) ==
    /\ ~MicrotaskPending
    /\ timers[id].state = "armed"
    /\ now >= timers[id].deadline
    /\ timers' = [timers EXCEPT ![id].state = "fired", ![id].deadline = 0]
    /\ pendingLints' = pendingLints
    /\ LintDocument(timers[id].key, id, FALSE, tokens, lints)
    /\ UNCHANGED <<client, call, probe, request, parsed, pipeline, disposed, fixes, formats>>
    /\ UNCHANGED <<now, lastTrigger, version, open, nextId, compliance,
                   diagnosticCollection, complianceDiagnosticCollection,
                   errorMessages>>

\* The setTimeout callback of scheduleLint.
TimerFire(id) ==
    /\ ~MicrotaskPending
    /\ timers[id].state = "armed"
    /\ now >= timers[id].deadline
    /\ timers' = [timers EXCEPT ![id].state = "fired", ![id].deadline = 0]
    /\ pendingLints' = MapDelete(pendingLints, timers[id].key)
    /\ LintDocument(timers[id].key, id, FALSE, tokens, lints)
    /\ UNCHANGED <<client, call, probe, request, parsed, pipeline, disposed, fixes, formats>>
    /\ UNCHANGED <<now, lastTrigger, version, open, nextId, compliance,
                   diagnosticCollection, complianceDiagnosticCollection,
                   errorMessages>>

\* Variant of LintCommand that lints without touching the pending entry.
LintCommandKeepPending(k) ==
    /\ ~disposed
    /\ ~MicrotaskPending
    /\ open[k]
    /\ nextId <= MaxOps
    /\ LintDocument(k, nextId, TRUE, tokens, lints)
    /\ nextId' = nextId + 1
    /\ UNCHANGED <<client, call, probe, request, parsed, pipeline, disposed, fixes, formats>>
    /\ UNCHANGED <<now, lastTrigger, version, open, pendingLints, timers,
                   compliance, diagnosticCollection,
                   complianceDiagnosticCollection, errorMessages>>

\* COMMAND_LINT_FILE handler, the active editor showing document k.
LintCommand(k) ==
    /\ ~disposed
    /\ ~MicrotaskPending
    /\ open[k]
    /\ nextId <= MaxOps
    /\ LET id == nextId
           has == MapHas(pendingLints, k)
           ln1 == IF has THEN FireCancellation(lints, tokens, pendingLints[k].cancel)
                         ELSE lints
           tk1 == IF has
                  THEN TokenDispose(TokenCancel(tokens, pendingLints[k].cancel),
                                    pendingLints[k].cancel)
                  ELSE tokens
       IN /\ timers' = IF has THEN ClearTimeout(timers, pendingLints[k].timer)
                              ELSE timers
          /\ pendingLints' = IF has THEN MapDelete(pendingLints, k)
                                    ELSE pendingLints
          /\ LintDocument(k, id, TRUE, tk1, ln1)
    /\ nextId' = nextId + 1
    /\ UNCHANGED <<client, call, probe, request, parsed, pipeline, disposed, fixes, formats>>
    /\ UNCHANGED <<now, lastTrigger, version, open, compliance, diagnosticCollection,
                   complianceDiagnosticCollection, errorMessages>>

\* Variant of LintOutcome that treats a failure as a result without
\* diagnostics and applies it.
LintOutcomeFailureApplied(documentVersion, currentVersion, r) ==
    IF currentVersion # documentVersion THEN "stale"
    ELSE IF r = "malformed" THEN "threw"
    ELSE "applied"

\* Variant of LintOutcome without the test of the document version.
LintOutcomeNoGate(documentVersion, currentVersion, r) ==
    IF r = "failure" THEN "failed"
    ELSE IF r = "malformed" THEN "threw"
    ELSE "applied"

\* Variant of LintOutcome that looks at the result before the version.
LintOutcomeResultFirst(documentVersion, currentVersion, r) ==
    IF r = "failure" THEN "failed"
    ELSE IF currentVersion # documentVersion THEN "stale"
    ELSE IF r = "malformed" THEN "threw"
    ELSE "applied"

\* What lintDocument does with the result r of the client call, the document
\* being at currentVersion and documentVersion having been captured before the
\* call: "stale" (log only), "failed" (log and showErrorMessage), "threw" (the
\* exception of reading the payload is caught and logged) or "applied"
\* (diagnosticCollection.set).
LintOutcome(documentVersion, currentVersion, r) ==
    IF currentVersion # documentVersion THEN "stale"
    ELSE IF r = "failure" THEN "failed"
    ELSE IF r = "malformed" THEN "threw"
    ELSE "applied"

\* lintDocument after the await: the client call of invocation id returns r.
\* An aborted request can only come back as a failure (ABORTED). Where the
\* invocation is the one fixDocument awaits, the end of lintDocument queues
\* the continuation of fixDocument.
LintResolve(id, r) ==
    /\ lints[id].state = "running"
    /\ lints[id].aborted => r = "failure"
    /\ LET k == lints[id].doc
           result == LintOutcome(lints[id].documentVersion, version[k], r)
           \* set() on a disposed DiagnosticCollection throws; the catch logs it
           outcome == IF disposed /\ result = "applied" THEN "threw" ELSE result
           hidden == HideLintingStatus(Status)
           ofFix == fixes[id].state = "linting"
       IN /\ lints' = [lints EXCEPT ![id].state = outcome]
          /\ diagnosticCollection' =
                 IF outcome = "applied"
                 THEN [diagnosticCollection EXCEPT
                          ![k] = [set |-> TRUE, version |-> lints[id].content]]
                 ELSE diagnosticCollection
          /\ errorMessages' = IF outcome = "failed"
                              THEN errorMessages \cup {id}
                              ELSE errorMessages
          /\ tokens' = IF lints[id].owned THEN TokenDispose(tokens, id) ELSE tokens
          /\ activeLintCount' = hidden.count
          /\ statusBarVisible' = hidden.visible
          /\ fixes' = IF ofFix THEN [fixes EXCEPT ![id].state = "linted"] ELSE fixes
    /\ UNCHANGED <<client, call, probe, request, parsed, pipeline, disposed, formats>>
    /\ UNCHANGED <<now, lastTrigger, version, open, nextId, pendingLints, timers,
                   compliance, complianceDiagnosticCollection>>

----------------------------------------------------------------------------
\* fixDocument(document, unsafe) up to the await of client.check, called by
\* the handlers of COMMAND_FIX_FILE and COMMAND_FIX_FILE_UNSAFE, the active
\* editor showing document k.
FixDocument(k) ==
    /\ ~disposed
    /\ ~MicrotaskPending
    /\ open[k]
    /\ nextId <= MaxOps
    /\ Cardinality({i \in Ids : fixes[i].state # "none"}) < MaxFixes
    /\ fixes' = [fixes EXCEPT ![nextId] = [state |-> "running", doc |-> k]]
    /\ statusBarVisible' = TRUE
    /\ nextId' = nextId + 1
    /\ UNCHANGED <<client, call, probe, request, parsed, pipeline, disposed, formats>>
    /\ UNCHANGED <<now, lastTrigger, version, open, pendingLints, timers, tokens, lints,
                   compliance, diagnosticCollection, complianceDiagnosticCollection,
                   activeLintCount, errorMessages>>

\* fixDocument after the await: the client call of invocation id returns r.
\* A failure is shown as an error message; a payload without a diagnostics
\* array makes the read of its length throw, which the catch block shows as
\* an error message; both end in the finally block, which hides the status
\* bar item. After a success fixDocument calls lintDocument(document), which
\* runs to the await of client.lint, or to its end where nothing is awaited;
\* the pending entry of the document and its timer are left as they are.
FixResolve(id, r) ==
    /\ fixes[id].state = "running"
    /\ LET k == fixes[id].doc
       IN IF r = "success"
          THEN /\ fixes' = [fixes EXCEPT ![id].state = "linting"]
               /\ LintDocument(k, id, TRUE, tokens, lints)
               /\ UNCHANGED errorMessages
          ELSE /\ fixes' = [fixes EXCEPT
                               ![id].state = IF r = "failure" THEN "failed" ELSE "threw"]
               /\ errorMessages' = errorMessages \cup {id}
               /\ statusBarVisible' = FALSE
               /\ UNCHANGED <<tokens, lints, activeLintCount>>
    /\ UNCHANGED <<client, call, probe, request, parsed, pipeline, disposed, formats>>
    /\ UNCHANGED <<now, lastTrigger, version, open, nextId, pendingLints, timers,
                   compliance, diagnosticCollection, complianceDiagnosticCollection>>

\* fixDocument resumes after "await this.lintDocument(document)" and runs
\* its finally block, which hides the status bar item whatever the count of
\* lints is.
FixFinish(id) ==
    /\ fixes[id].state = "linted"
    /\ fixes' = [fixes EXCEPT ![id].state = "done"]
    /\ statusBarVisible' = FALSE
    /\ UNCHANGED <<client, call, probe, request, parsed, pipeline, disposed, formats>>
    /\ UNCHANGED <<now, lastTrigger, version, open, nextId, pendingLints, timers, tokens,
                   lints, compliance, diagnosticCollection,
                   complianceDiagnosticCollection, activeLintCount, errorMessages>>

----------------------------------------------------------------------------
\* formatDocument(document) up to the await of client.format, called by the
\* handler of COMMAND_FORMAT_FILE and by the document formatting provider for
\* document k.
FormatDocument(k) ==
    /\ ~disposed
    /\ ~MicrotaskPending
    /\ open[k]
    /\ nextId <= MaxOps
    /\ Cardinality({i \in Ids : formats[i].state # "none"}) < MaxFormats
    /\ formats' = [formats EXCEPT ![nextId] = [state |-> "running", doc |-> k]]
    /\ nextId' = nextId + 1
    /\ UNCHANGED <<client, call, probe, request, parsed, pipeline, disposed, fixes>>
    /\ UNCHANGED <<now, lastTrigger, version, open, pendingLints, timers, tokens, lints,
                   compliance, diagnosticCollection, complianceDiagnosticCollection,
                   activeLintCount, statusBarVisible, errorMessages>>

\* formatDocument after the await: the client call of invocation id returns r.
\* A failure is shown as an error message and no edit is returned; data whose
\* content cannot be read makes the read throw, which the catch block shows as
\* an error message; otherwise the replacement of the whole document is
\* returned, without a test of document.version, and handed to the editor
\* (workspace.applyEdit in the command handler).
FormatResolve(id, r) ==
    /\ formats[id].state = "running"
    /\ formats' = [formats EXCEPT
                      ![id].state = IF r = "failure" THEN "failed"
                                    ELSE IF r = "malformed" THEN "threw"
                                    ELSE "edits"]
    /\ errorMessages' = IF r = "success" THEN errorMessages ELSE errorMessages \cup {id}
    /\ UNCHANGED <<client, call, probe, request, parsed, pipeline, disposed, fixes>>
    /\ UNCHANGED <<now, lastTrigger, version, open, nextId, pendingLints, timers, tokens,
                   lints, compliance, diagnosticCollection,
                   complianceDiagnosticCollection, activeLintCount, statusBarVisible>>

\* The editor applies the edits of invocation id to the document, which is
\* open: the document changes.
ApplyEdit(id) ==
    /\ ~MicrotaskPending
    /\ formats[id].state = "edits"
    /\ open[formats[id].doc]
    /\ version[formats[id].doc] < MaxVersion
    /\ formats' = [formats EXCEPT ![id].state = "applied"]
    /\ version' = [version EXCEPT ![formats[id].doc] = @ + 1]
    /\ UNCHANGED <<client, call, probe, request, parsed, pipeline, disposed, fixes>>
    /\ UNCHANGED <<now, lastTrigger, open, nextId, pendingLints, timers, tokens,
                   lints, compliance, diagnosticCollection,
                   complianceDiagnosticCollection, activeLintCount, statusBarVisible,
                   errorMessages>>

----------------------------------------------------------------------------
\* Variant of CloseTextDocument that cancels the pending lint and keeps its
\* entry in the map.
CloseTextDocumentKeepEntry(k, S) ==
    LET has == MapHas(S.pendingLints, k)
        p == IF has THEN S.pendingLints[k] ELSE [timer |-> 1, cancel |-> 1]
    IN [pendingLints |-> S.pendingLints,
        timers |-> IF has THEN ClearTimeout(S.timers, p.timer) ELSE S.timers,
        tokens |-> IF has THEN TokenDispose(TokenCancel(S.tokens, p.cancel), p.cancel)
                          ELSE S.tokens,
        lints |-> IF has THEN FireCancellation(S.lints, S.tokens, p.cancel)
                         ELSE S.lints,
        diagnosticCollection |->
            [S.diagnosticCollection EXCEPT ![k] = NoDiagnostics],
        complianceDiagnosticCollection |->
            [S.complianceDiagnosticCollection EXCEPT ![k] = NoDiagnostics]]

\* Variant of CloseTextDocument that cancels the pending lints of every
\* document.
CloseTextDocumentEveryKey(k, S) ==
    LET cancelled(i) == \E x \in DOMAIN S.pendingLints : S.pendingLints[x].cancel = i
    IN [pendingLints |-> EmptyMap,
        timers |-> [i \in Ids |-> IF \E x \in DOMAIN S.pendingLints :
                                        S.pendingLints[x].timer = i
                                  THEN ClearTimeout(S.timers, i)[i]
                                  ELSE S.timers[i]],
        tokens |-> [i \in Ids |-> IF cancelled(i)
                                  THEN TokenDispose(TokenCancel(S.tokens, i), i)[i]
                                  ELSE S.tokens[i]],
        lints |-> S.lints,
        diagnosticCollection |->
            [S.diagnosticCollection EXCEPT ![k] = NoDiagnostics],
        complianceDiagnosticCollection |->
            [S.complianceDiagnosticCollection EXCEPT ![k] = NoDiagnostics]]

\* onDidCloseTextDocument handler, as a function of the scheduler state
\* S = [pendingLints, timers, tokens, lints, diagnosticCollection,
\*      complianceDiagnosticCollection].
CloseTextDocument(k, S) ==
    LET has == MapHas(S.pendingLints, k)
        p == IF has THEN S.pendingLints[k] ELSE [timer |-> 1, cancel |-> 1]
    IN [pendingLints |-> IF has THEN MapDelete(S.pendingLints, k)
                                ELSE S.pendingLints,
        timers |-> IF has THEN ClearTimeout(S.timers, p.timer) ELSE S.timers,
        tokens |-> IF has THEN TokenDispose(TokenCancel(S.tokens, p.cancel), p.cancel)
                          ELSE S.tokens,
        lints |-> IF has THEN FireCancellation(S.lints, S.tokens, p.cancel)
                         ELSE S.lints,
        diagnosticCollection |->
            [S.diagnosticCollection EXCEPT ![k] = NoDiagnostics],
        complianceDiagnosticCollection |->
            [S.complianceDiagnosticCollection EXCEPT ![k] = NoDiagnostics]]

SchedulerState ==
    [pendingLints |-> pendingLints, timers |-> timers, tokens |-> tokens,
     lints |-> lints, diagnosticCollection |-> diagnosticCollection,
     complianceDiagnosticCollection |-> complianceDiagnosticCollection]

\* The user closes document k.
Close(k) ==
    /\ ~disposed
    /\ ~MicrotaskPending
    /\ open[k]
    /\ open' = [open EXCEPT ![k] = FALSE]
    /\ LET S == CloseTextDocument(k, SchedulerState)
       IN /\ pendingLints' = S.pendingLints
          /\ timers' = S.timers
          /\ tokens' = S.tokens
          /\ lints' = S.lints
          /\ diagnosticCollection' = S.diagnosticCollection
          /\ complianceDiagnosticCollection' = S.complianceDiagnosticCollection
    /\ UNCHANGED <<client, call, probe, request, parsed, pipeline, disposed, fixes, formats>>
    /\ UNCHANGED <<now, lastTrigger, version, nextId, compliance, activeLintCount,
                   statusBarVisible, errorMessages>>

----------------------------------------------------------------------------
\* The entries of the pending map (this.pendingLints.values()).
PendingValues(pl) == {pl[k] : k \in DOMAIN pl}

\* The loop of dispose() over the pending entries: clearTimeout(pending.timer)
\* for every entry.
ClearPendingTimers(tm, pl) ==
    [i \in Ids |-> IF \E p \in PendingValues(pl) : p.timer = i
                   THEN ClearTimeout(tm, i)[i]
                   ELSE tm[i]]

\* The loop of dispose() over the pending entries: pending.cancel.cancel() and
\* pending.cancel.dispose() for every entry, followed by the disposal of the
\* token sources that lintDocument pushed to this.disposables (those it created
\* itself).
DisposeTokens(tk, ln, pl) ==
    [i \in Ids |-> IF \E p \in PendingValues(pl) : p.cancel = i
                   THEN TokenDispose(TokenCancel(tk, i), i)[i]
                   ELSE IF ln[i].owned /\ tk[i].state = "live"
                        THEN TokenDispose(tk, i)[i]
                        ELSE tk[i]]

\* Variant of Dispose that empties the pending map and leaves its timers armed.
DisposeKeepTimers ==
    /\ ~disposed
    /\ ~MicrotaskPending
    /\ disposed' = TRUE
    /\ timers' = timers
    /\ lints' = [i \in Ids |-> IF \E p \in PendingValues(pendingLints) : p.cancel = i
                               THEN FireCancellation(lints, tokens, i)[i]
                               ELSE lints[i]]
    /\ tokens' = DisposeTokens(tokens, lints, pendingLints)
    /\ pendingLints' = EmptyMap
    /\ diagnosticCollection' = [k \in Docs |-> NoDiagnostics]
    /\ complianceDiagnosticCollection' = [k \in Docs |-> NoDiagnostics]
    /\ statusBarVisible' = FALSE
    /\ UNCHANGED <<client, call, probe, request, parsed, pipeline, fixes, formats>>
    /\ UNCHANGED <<now, lastTrigger, version, open, nextId, compliance,
                   activeLintCount, errorMessages>>

\* ExtensionManager.dispose(), called by deactivate(): every pending lint is
\* cancelled and the map is cleared; then every object of this.disposables is
\* disposed: the two diagnostic collections (which drops their entries), the
\* status bar item (which hides it), the registrations of the event handlers
\* and of the commands, and the token sources created by lintDocument.
Dispose ==
    /\ ~disposed
    /\ ~MicrotaskPending
    /\ disposed' = TRUE
    /\ timers' = ClearPendingTimers(timers, pendingLints)
    /\ lints' = [i \in Ids |-> IF \E p \in PendingValues(pendingLints) : p.cancel = i
                               THEN FireCancellation(lints, tokens, i)[i]
                               ELSE lints[i]]
    /\ tokens' = DisposeTokens(tokens, lints, pendingLints)
    /\ pendingLints' = EmptyMap
    /\ diagnosticCollection' = [k \in Docs |-> NoDiagnostics]
    /\ complianceDiagnosticCollection' = [k \in Docs |-> NoDiagnostics]
    /\ statusBarVisible' = FALSE
    /\ UNCHANGED <<client, call, probe, request, parsed, pipeline, fixes, formats>>
    /\ UNCHANGED <<now, lastTrigger, version, open, nextId, compliance,
                   activeLintCount, errorMessages>>

----------------------------------------------------------------------------
\* checkCompliance(document) up to the await of client.compliance.
CheckCompliance(k) ==
    /\ ~disposed
    /\ ~MicrotaskPending
    /\ open[k]
    /\ nextId <= MaxOps
    /\ compliance' = [compliance EXCEPT
                         ![nextId] = [state |-> "running", doc |-> k,
                                      content |-> version[k]]]
    /\ statusBarVisible' = TRUE
    /\ nextId' = nextId + 1
    /\ UNCHANGED <<client, call, probe, request, parsed, pipeline, disposed, fixes, formats>>
    /\ UNCHANGED <<now, lastTrigger, version, open, pendingLints, timers, tokens, lints,
                   diagnosticCollection, complianceDiagnosticCollection,
                   activeLintCount, errorMessages>>

\* checkCompliance after the await: the client call returns r.
ComplianceResolve(id, r) ==
    /\ compliance[id].state = "running"
    /\ LET k == compliance[id].doc
           outcome == IF r = "failure" THEN "failed"
                      ELSE IF r = "malformed" \/ disposed THEN "threw"
                      ELSE "applied"
       IN /\ compliance' = [compliance EXCEPT ![id].state = outcome]
          /\ complianceDiagnosticCollection' =
                 IF outcome = "applied"
                 THEN [complianceDiagnosticCollection EXCEPT
                          ![k] = [set |-> TRUE, version |-> compliance[id].content]]
                 ELSE complianceDiagnosticCollection
          /\ errorMessages' = IF outcome = "applied"
                              THEN errorMessages
                              ELSE errorMessages \cup {id}
    /\ statusBarVisible' = FALSE
    /\ UNCHANGED <<client, call, probe, request, parsed, pipeline, disposed, fixes, formats>>
    /\ UNCHANGED <<now, lastTrigger, version, open, nextId, pendingLints, timers, tokens,
                   lints, diagnosticCollection, activeLintCount>>

----------------------------------------------------------------------------
\* ShiftresetClient: one call, from makeRequest to its result.

\* Signals a caller may pass as options.signal: none, a signal not aborted
\* yet, or one already aborted with some reason.
CallerSignals ==
    {Undefined, Some(NewSignal)} \cup {Some(Abort(NewSignal, r)) : r \in AbortReasons}

\* The signal given to fetch.
FetchSignal(c) == IF c.hasSignal THEN c.combined ELSE c.timeoutSignal

\* The caller aborts its signal; the listener combineAbortSignals added to
\* it, if any, aborts the combined controller with the signal's reason.
AbortCaller(c, reason) ==
    LET sig == Abort(c.callerSignal, reason)
        heard == "caller" \in c.listeners /\ ~c.callerSignal.aborted
    IN [c EXCEPT !.callerSignal = sig,
                 !.combined = IF heard THEN Abort(@, sig.reason) ELSE @,
                 !.listeners = IF heard THEN @ \ {"caller"} ELSE @]

\* timeoutController.abort(), and the listener combineAbortSignals added to
\* the timeout signal, if any.
AbortTimeout(c) ==
    LET sig == Abort(c.timeoutSignal, Undefined)
        heard == "timeout" \in c.listeners /\ ~c.timeoutSignal.aborted
    IN [c EXCEPT !.timeoutSignal = sig,
                 !.combined = IF heard THEN Abort(@, sig.reason) ELSE @,
                 !.listeners = IF heard THEN @ \ {"timeout"} ELSE @]

\* Variant of EffectiveTimeout with || in the place of ??.
EffectiveTimeoutFalsy(options, defaultTimeoutMs) ==
    IF options.timeoutMs \in {Undefined, Some(0)}
    THEN defaultTimeoutMs
    ELSE ValueOf(options.timeoutMs)

\* options.timeoutMs ?? this.defaultTimeoutMs
EffectiveTimeout(options, defaultTimeoutMs) ==
    Coalesce(options.timeoutMs, defaultTimeoutMs)

\* makeRequest of client cl at time t, up to the await of fetch: call number
\* seq, for the given method with options = [timeoutMs, signal].
MakeRequest(cl, seq, method, options, t) ==
    LET effectiveTimeout == EffectiveTimeout(options, cl.defaultTimeoutMs)
        comb == IF options.signal # Undefined
                THEN CombineAbortSignals(ValueOf(options.signal), NewSignal)
                ELSE [signal |-> NewSignal, listeners |-> {}]
    IN [NoCall EXCEPT
           !.pc = "fetching", !.seq = seq,
           !.method = method, !.endpoint = Endpoint(method),
           !.timeoutMs = options.timeoutMs,
           !.effectiveTimeout = effectiveTimeout,
           !.timers = SetTimeout(NoCallTimers, "timeoutId", Endpoint(method), t,
                                 effectiveTimeout),
           !.hasSignal = options.signal # Undefined,
           !.callerSignal = Coalesce(options.signal, NewSignal),
           !.combined = comb.signal,
           !.listeners = comb.listeners]

\* Variant of HandleResponse that reads a body of an unknown type as text.
HandleResponseReadUnknown(response) ==
    IF ~response.ok
    THEN [pc |-> "done", reading |-> "",
          result |-> Failure(CreateHttpError(response.status, response.statusText))]
    ELSE IF Includes(Coalesce(response.contentType, <<>>), S_application_json)
    THEN [pc |-> "reading", reading |-> "json", result |-> NoResult]
    ELSE [pc |-> "reading", reading |-> "text", result |-> NoResult]

\* handleResponse(response) up to its return or its await of the body.
HandleResponse(response) ==
    IF ~response.ok
    THEN [pc |-> "done", reading |-> "",
          result |-> Failure(CreateHttpError(response.status, response.statusText))]
    ELSE LET contentType == Coalesce(response.contentType, <<>>)
         IN IF Includes(contentType, S_application_json)
            THEN [pc |-> "reading", reading |-> "json", result |-> NoResult]
            ELSE IF Includes(contentType, S_text_plain)
            THEN [pc |-> "reading", reading |-> "text", result |-> NoResult]
            ELSE [pc |-> "done", reading |-> "",
                  result |-> Failure(ShiftresetApiError(
                                 "INVALID_RESPONSE",
                                 Message("Unexpected Content-Type: ", contentType),
                                 [NoOptions EXCEPT
                                     !.statusCode = Some(response.status)]))]

\* Variant of HandleBody without the try/catch around the read of the body.
HandleBodyUncaught(reading, response, outcome) ==
    IF outcome.ok
    THEN Success(IF reading = "json"
                 THEN ValueOf(outcome.value)
                 ELSE JsObject(<<[key |-> S_content, value |-> ValueOf(outcome.value)]>>))
    ELSE Rejected(ValueOf(outcome.error))

\* handleResponse after the await of response.json() ("json") or
\* response.text() ("text"), which resolved with a value or rejected.
HandleBody(reading, response, outcome) ==
    IF outcome.ok
    THEN Success(IF reading = "json"
                 THEN ValueOf(outcome.value)
                 ELSE JsObject(<<[key |-> S_content, value |-> ValueOf(outcome.value)]>>))
    ELSE Failure(ShiftresetApiError(
                     "INVALID_RESPONSE",
                     Message(IF reading = "json"
                             THEN "Failed to parse API response as JSON"
                             ELSE "Failed to read API response as text", <<>>),
                     [statusCode |-> Some(response.status), cause |-> outcome.error]))

\* makeRequest after fetch resolved: clearTimeout, then handleResponse.
OnFetchResolved(c, response) ==
    LET h == HandleResponse(response)
    IN [c EXCEPT !.timers = ClearTimeout(@, "timeoutId"),
                 !.response = Some(response),
                 !.pc = h.pc, !.reading = h.reading, !.result = h.result]

\* Variant of OnFetchRejected that leaves the timeout timer alone.
OnFetchRejectedKeepTimer(c, error) ==
    [c EXCEPT !.fetchError = Some(error),
              !.pc = "done",
              !.result = Failure(HandleFetchError(error))]

\* makeRequest's catch block: fetch rejected with error.
OnFetchRejected(c, error) ==
    [c EXCEPT !.timers = ClearTimeout(@, "timeoutId"),
              !.fetchError = Some(error),
              !.pc = "done",
              !.result = Failure(HandleFetchError(error))]

\* How the read of the body of call c, if it is reading one, can end: once
\* the signal given to fetch is aborted the read rejects with the abort
\* reason, or with a new AbortError for a falsy reason; otherwise the body
\* arrives and is decoded, or the stream fails.
BodyOutcomes(c) ==
    IF c.pc # "reading"
    THEN {}
    ELSE IF FetchSignal(c).aborted
    THEN {BodyRejected(Undefined, AbortRejection(FetchSignal(c)))}
    ELSE {IF c.reading = "json" THEN ResponseJson(t) ELSE ResponseText(t) :
              t \in BodyTexts}
         \cup {BodyRejected(Undefined, e) : e \in BodyErrors[c.reading]}

\* fetch was given a signal that is aborted and has not rejected yet: the
\* rejection and makeRequest's catch block run as microtasks, before any
\* timer callback or other task.
RejectionPending(c) == c.pc = "fetching" /\ FetchSignal(c).aborted

\* client.check / lint / format / compliance(content, options).
StartCall(method, timeoutMs, signal) ==
    /\ call.pc \in {"idle", "done"}
    /\ call.seq < MaxCalls
    /\ call' = MakeRequest(client, call.seq + 1, method,
                           [timeoutMs |-> timeoutMs, signal |-> signal], now)
    /\ UNCHANGED <<now, client, probe, request, parsed, pipeline>>
    /\ UNCHANGED managerVars

\* The caller aborts the signal it passed, the call being in flight.
CallerAbort(reason) ==
    /\ call.pc \in {"fetching", "reading"}
    /\ ~RejectionPending(call)
    /\ call.hasSignal
    /\ ~call.callerSignal.aborted
    /\ call' = AbortCaller(call, reason)
    /\ UNCHANGED <<now, client, probe, request, parsed, pipeline>>
    /\ UNCHANGED managerVars

\* Time passes until the timeout of the call is due.
Elapse ==
    /\ ~RejectionPending(call)
    /\ call.timers["timeoutId"].state = "armed"
    /\ now < call.timers["timeoutId"].deadline
    /\ now' = call.timers["timeoutId"].deadline
    /\ UNCHANGED <<client, call, probe, request, parsed, pipeline>>
    /\ UNCHANGED managerVars

\* The setTimeout callback of makeRequest.
TimeoutFire ==
    /\ ~RejectionPending(call)
    /\ call.timers["timeoutId"].state = "armed"
    /\ now >= call.timers["timeoutId"].deadline
    /\ call' = [AbortTimeout(call) EXCEPT
                   !.timers["timeoutId"].state = "fired",
                   !.timers["timeoutId"].deadline = 0]
    /\ UNCHANGED <<now, client, probe, request, parsed, pipeline>>
    /\ UNCHANGED managerVars

\* fetch resolves: the status line and headers of a response arrived.
FetchResolve(status, contentType) ==
    /\ call.pc = "fetching"
    /\ ~FetchSignal(call).aborted
    /\ call' = OnFetchResolved(call, [status |-> status, ok |-> ResponseOk(status),
                                      statusText |-> S_OK,
                                      contentType |-> contentType])
    /\ UNCHANGED <<now, client, probe, request, parsed, pipeline>>
    /\ UNCHANGED managerVars

\* fetch rejects because the request failed.
FetchReject(error) ==
    /\ call.pc = "fetching"
    /\ ~FetchSignal(call).aborted
    /\ call' = OnFetchRejected(call, error)
    /\ UNCHANGED <<now, client, probe, request, parsed, pipeline>>
    /\ UNCHANGED managerVars

\* fetch rejects with the reason of its aborted signal, whatever the reason
\* is: a falsy one (null, 0, '', false) is no Error for handleFetchError.
FetchAbort ==
    /\ call.pc = "fetching"
    /\ FetchSignal(call).aborted
    /\ call' = OnFetchRejected(call, ValueOf(FetchSignal(call).reason))
    /\ UNCHANGED <<now, client, probe, request, parsed, pipeline>>
    /\ UNCHANGED managerVars

\* The read of the body ends.
BodySettle ==
    /\ call.pc = "reading"
    /\ \E outcome \in BodyOutcomes(call) :
           call' = [call EXCEPT
                       !.pc = "done",
                       !.body = Some(outcome),
                       !.result = HandleBody(call.reading, ValueOf(call.response),
                                             outcome)]
    /\ UNCHANGED <<now, client, probe, request, parsed, pipeline>>
    /\ UNCHANGED managerVars

----------------------------------------------------------------------------
\* ShiftresetApiError objects built by code using the client.

ErrorCodes ==
    {"INVALID_RESPONSE", "NETWORK_ERROR", "ABORTED", "RATE_LIMITED", "SERVER_ERROR",
     "CLIENT_ERROR", "TIMEOUT"}

ErrorMessages == {Message("Test error", <<>>), Message("", S_fetch_failed)}

ErrorOptions ==
    [statusCode : {Undefined, Some(429), Some(500)},
     cause : {Undefined, Some(NonErrorValue)}]

NewApiError(code, message, options) ==
    /\ probe' = [error |-> Some(ShiftresetApiError(code, message, options)),
                 isRetriable |-> Undefined]
    /\ UNCHANGED <<now, client, call, request, parsed, pipeline>>
    /\ UNCHANGED managerVars

ReadIsRetriable ==
    /\ probe.error # Undefined
    /\ probe.isRetriable = Undefined
    /\ probe' = [probe EXCEPT !.isRetriable = Some(IsRetriable(ValueOf(probe.error)))]
    /\ UNCHANGED <<now, client, call, request, parsed, pipeline>>
    /\ UNCHANGED managerVars

\* client.compliance(content, options) up to the URL given to fetch.
BuildComplianceRequest ==
    /\ request.options # Undefined
    /\ request.url = Undefined
    /\ LET queryParams == ComplianceQueryParams(ValueOf(request.options))
       IN request' = [request EXCEPT
                         !.url = Some([endpoint |-> Endpoint("compliance"),
                                       queryParams |-> queryParams,
                                       search |-> UrlSearch(queryParams)])]
    /\ UNCHANGED <<now, client, call, probe, parsed, pipeline>>
    /\ UNCHANGED managerVars

\* lintDocument receives a successful result for the version it captured.
ApplyLintResult ==
    /\ pipeline.data # Undefined
    /\ pipeline.outcome = Undefined
    /\ pipeline' = [pipeline EXCEPT
                        !.outcome = Some(HandleLintData(ValueOf(pipeline.data),
                                                        DocumentLines))]
    /\ UNCHANGED <<now, client, call, probe, request, parsed>>
    /\ UNCHANGED managerVars

\* parseLspResponse(stdout) is called and returns.
ParseStdout ==
    /\ parsed.stdout # Undefined
    /\ parsed.result = Undefined
    /\ parsed' = [parsed EXCEPT !.result = Some(ParseLspResponse(ValueOf(parsed.stdout)))]
    /\ UNCHANGED <<now, client, call, probe, request, pipeline>>
    /\ UNCHANGED managerVars

----------------------------------------------------------------------------
\* The lint scheduler of one document: saves, the debounce timer, the manual
\* lint command, the fix command, responses, edits and the close of the
\* document.
Next ==
    \/ Tick
    \/ \E k \in Docs : Edit(k)
    \/ \E k \in Docs : ScheduleLint(k)
    \/ \E id \in Ids : TimerFire(id)
    \/ \E k \in Docs : LintCommand(k)
    \/ \E id \in Ids, r \in Results : LintResolve(id, r)
    \/ \E k \in Docs : FixDocument(k)
    \/ \E id \in Ids, r \in Results : FixResolve(id, r)
    \/ \E id \in Ids : FixFinish(id)
    \/ \E k \in Docs : Close(k)

Spec == Init /\ [][Next]_vars

\* The lint scheduler of one document that is not edited: the version of a
\* document has no part in the arming, clearing and firing of a timer.
NextDebounce ==
    \/ Tick
    \/ \E k \in Docs : ScheduleLint(k)
    \/ \E id \in Ids : TimerFire(id)
    \/ \E k \in Docs : LintCommand(k)
    \/ \E id \in Ids, r \in Results : LintResolve(id, r)
    \/ \E k \in Docs : FixDocument(k)
    \/ \E id \in Ids, r \in Results : FixResolve(id, r)
    \/ \E id \in Ids : FixFinish(id)
    \/ \E k \in Docs : Close(k)

\* The event loop keeps running: time passes, a due timer runs its callback
\* and a continuation that is queued runs.
FairSpec ==
    /\ Init /\ [][NextDebounce]_vars
    /\ WF_vars(Tick)
    /\ \A id \in Ids : WF_vars(TimerFire(id))
    /\ \A id \in Ids : WF_vars(FixFinish(id))

\* Compliance checks and formatting of two documents under edits.
NextCompliance ==
    \/ \E k \in Docs : Edit(k)
    \/ \E k \in Docs : CheckCompliance(k)
    \/ \E id \in Ids, r \in Results : ComplianceResolve(id, r)
    \/ \E k \in Docs : FormatDocument(k)
    \/ \E id \in Ids, r \in Results : FormatResolve(id, r)
    \/ \E id \in Ids : ApplyEdit(id)
    \/ \E k \in Docs : Close(k)

SpecCompliance == InitAll /\ [][NextCompliance]_vars

\* The lint scheduler of one document until the extension is deactivated.
NextDispose ==
    \/ Next
    \/ Dispose

SpecDispose == Init /\ [][NextDispose]_vars

\* The lint scheduler of two open documents: saves, the debounce timers, the
\* manual lint command, responses and the close of either document.
NextKeys ==
    \/ Tick
    \/ \E k \in Docs : ScheduleLint(k)
    \/ \E id \in Ids : TimerFire(id)
    \/ \E k \in Docs : LintCommand(k)
    \/ \E id \in Ids, r \in {"success", "failure"} : LintResolve(id, r)
    \/ \E k \in Docs : FixDocument(k)
    \/ \E id \in Ids, r \in {"success", "failure"} : FixResolve(id, r)
    \/ \E id \in Ids : FixFinish(id)
    \/ \E k \in Docs : Close(k)

SpecKeys == InitAll /\ [][NextKeys]_vars

\* Manual lints, compliance checks, fixes and formatting of the open
\* documents, sharing the status bar item and the error messages.
NextStatus ==
    \/ \E k \in Docs : LintCommand(k)
    \/ \E id \in Ids, r \in Results : LintResolve(id, r)
    \/ \E k \in Docs : CheckCompliance(k)
    \/ \E id \in Ids, r \in Results : ComplianceResolve(id, r)
    \/ \E k \in Docs : FixDocument(k)
    \/ \E id \in Ids, r \in Results : FixResolve(id, r)
    \/ \E id \in Ids : FixFinish(id)
    \/ \E k \in Docs : FormatDocument(k)
    \/ \E id \in Ids, r \in Results : FormatResolve(id, r)
    \/ \E id \in Ids : ApplyEdit(id)

SpecStatus == InitAll /\ [][NextStatus]_vars

\* A client, constructed with or without a timeout, making calls.
InitClient ==
    /\ InitManager({"a.ls"})
    /\ \E o \in ClientTimeouts : client = ShiftresetClient([timeoutMs |-> o])
    /\ call = NoCall
    /\ probe = NoProbe
    /\ request = NoRequest
    /\ parsed = NoParsed
    /\ pipeline = NoPipeline

NextClient ==
    \/ \E m \in Methods, t \in CallTimeouts, sg \in CallerSignals : StartCall(m, t, sg)
    \/ \E r \in AbortReasons : CallerAbort(r)
    \/ Elapse
    \/ TimeoutFire
    \/ \E st \in Statuses, ct \in ContentTypes : FetchResolve(st, ct)
    \/ \E e \in FetchErrors : FetchReject(e)
    \/ FetchAbort
    \/ BodySettle

SpecClient == InitClient /\ [][NextClient]_vars

\* Error objects are built and asked whether they are retriable.
NextError ==
    \/ \E c \in ErrorCodes, m \in ErrorMessages, o \in ErrorOptions : NewApiError(c, m, o)
    \/ ReadIsRetriable

SpecError == Init /\ [][NextError]_vars

----------------------------------------------------------------------------
\* The compliance method called with some options.
InitQuery ==
    /\ InitManager({"a.ls"})
    /\ client = ShiftresetClient([timeoutMs |-> Undefined])
    /\ call = NoCall
    /\ probe = NoProbe
    /\ parsed = NoParsed
    /\ pipeline = NoPipeline
    /\ \E o \in ComplianceOptionValues : request = [options |-> Some(o), url |-> Undefined]

NextQuery == BuildComplianceRequest

SpecQuery == InitQuery /\ [][NextQuery]_vars

\* parseLspResponse called with some text.
InitParser ==
    /\ InitManager({"a.ls"})
    /\ client = ShiftresetClient([timeoutMs |-> Undefined])
    /\ call = NoCall
    /\ probe = NoProbe
    /\ request = NoRequest
    /\ parsed \in ParserInputs
    /\ pipeline = NoPipeline

NextParser == ParseStdout

SpecParser == InitParser /\ [][NextParser]_vars

\* lintDocument with a successful result of some data.
InitPipeline ==
    /\ InitManager({"a.ls"})
    /\ client = ShiftresetClient([timeoutMs |-> Undefined])
    /\ call = NoCall
    /\ probe = NoProbe
    /\ request = NoRequest
    /\ parsed = NoParsed
    /\ \E v \in LintData : pipeline = [data |-> Some(v), outcome |-> Undefined]

NextPipeline == ApplyLintResult

SpecPipeline == InitPipeline /\ [][NextPipeline]_vars

TypeOK ==
    /\ now \in 0..MaxTime
    /\ version \in [Docs -> 1..MaxVersion]
    /\ open \in [Docs -> BOOLEAN]
    /\ nextId \in 1..(MaxOps + 1)
    /\ DOMAIN pendingLints \subseteq Docs
    /\ \A k \in DOMAIN pendingLints :
           pendingLints[k].timer \in Ids /\ pendingLints[k].cancel \in Ids
    /\ activeLintCount \in 0..MaxOps
    /\ statusBarVisible \in BOOLEAN
    /\ errorMessages \subseteq Ids
    /\ \A i \in Ids :
           /\ fixes[i].state \in {"none", "running", "failed", "threw", "linting",
                                   "linted", "done"}
           /\ formats[i].state \in {"none", "running", "failed", "threw", "edits",
                                     "applied"}
    /\ disposed \in BOOLEAN

----------------------------------------------------------------------------
\* Vocabulary of the properties.

\* id was allocated by a scheduleLint call (a save trigger).
Scheduled(id) == timers[id].state # "unset"

\* lintDocument sent a request for id and is awaiting the result.
Running(id) == lints[id].state = "running"

\* lintDocument sent a request for id at some point.
Dispatched(id) == lints[id].state \in {"running", "stale", "failed", "threw", "applied"}

\* This step sends the request of id.
DispatchStep(id) == lints[id].state = "none" /\ lints'[id].state = "running"

\* This step receives the result of id.
ResolveStep(id) == lints[id].state = "running" /\ lints'[id].state # "running"

\* The timers of tm that are armed for key k.
ArmedTimers(tm, k) == {i \in Ids : tm[i].state = "armed" /\ tm[i].key = k}

\* The key a token source was created for: the document of the scheduleLint
\* call, or of the lintDocument invocation that owns it.
TokenKey(id) == IF Scheduled(id) THEN timers[id].key ELSE lints[id].doc

\* The token sources created for key k and not disposed.
Outstanding(k) ==
    {i \in Ids : tokens[i].state = "live" /\ ~tokens[i].disposed /\ TokenKey(i) = k}

----------------------------------------------------------------------------
\* C1 (debounce), under FairSpec: the timer of a save trigger is cleared
\* only by a later save trigger of its document, by the lint command for the
\* document or by the close of the document, and a trigger whose timer was
\* cleared never has a request sent. The timer of a trigger that is not
\* cleared fires, and the step in which it fires sends one request, for the
\* document of the trigger: the trigger is then the latest of its document,
\* the time is no earlier than DEBOUNCE_MS after it, and no other request is
\* sent in the step. No request is sent for a trigger a second time.
C1_Debounce ==
    /\ [][\A id \in Ids :
             /\ (Scheduled(id) /\ DispatchStep(id)) =>
                   /\ timers[id].state = "armed" /\ timers'[id].state = "fired"
                   /\ now >= lastTrigger[timers[id].key] + DEBOUNCE_MS
                   /\ \A u \in Ids :
                         (Scheduled(u) /\ timers[u].key = timers[id].key) => u <= id
                   /\ \A u \in Ids \ {id} : lints'[u] = lints[u]
             /\ (timers[id].state = "armed" /\ timers'[id].state = "fired") =>
                   /\ DispatchStep(id)
                   /\ lints'[id].doc = timers[id].key
             /\ (timers[id].state = "armed" /\ timers'[id].state = "cleared") =>
                   \/ /\ nextId' = nextId + 1
                      /\ timers'[nextId].state = "armed"
                      /\ timers'[nextId].key = timers[id].key
                   \/ /\ nextId' = nextId + 1
                      /\ lints'[nextId].owned /\ lints'[nextId].doc = timers[id].key
                   \/ open[timers[id].key] /\ ~open'[timers[id].key]
             /\ timers[id].state = "cleared" =>
                   (timers'[id].state = "cleared" /\ lints'[id].state = "none")
             /\ timers[id].state = "fired" => timers'[id].state = "fired"
       ]_vars
    /\ \A id \in Ids :
          (timers[id].state = "armed") ~> (timers[id].state \in {"fired", "cleared"})

\* A burst of two saves of one document, the second before the timer of the
\* first fired, after which the request of the second is in flight.
C1_Witness ==
    \E i \in Ids, j \in Ids :
        /\ j = i + 1
        /\ timers[i].state = "cleared" /\ timers[j].state = "fired"
        /\ timers[i].key = timers[j].key
        /\ lints[i].state = "none" /\ Running(j)

\* C2 (single flight): at most one request sent by the scheduler is
\* unresolved per document at any instant.
C2_SingleFlight ==
    \A k \in Docs :
        Cardinality({i \in Ids : Scheduled(i) /\ Running(i) /\ lints[i].doc = k}) <= 1

\* C3 (trigger while running): once a save trigger for a document has arrived
\* while a request sent by the scheduler for that document is in flight, cancellation of the request
\* in flight has been requested and its abort signal has fired.
C3_TriggerWhileRunning ==
    \A i \in Ids, j \in Ids :
        (/\ i < j
         /\ Scheduled(i) /\ Running(i)
         /\ Scheduled(j) /\ timers[j].key = lints[i].doc)
        => (tokens[i].cancelled /\ lints[i].aborted)

\* C4 (supersede while running): the request of a save trigger that arrived
\* while an earlier triggered request of the document was in flight is sent
\* only after the earlier request has resolved.
C4_SupersedeWhileRunning ==
    \A i \in Ids, j \in Ids :
        (/\ i < j
         /\ Scheduled(i) /\ Scheduled(j)
         /\ timers[i].key = timers[j].key
         /\ Dispatched(j))
        => ~Running(i)

\* C5 (staleness of lint): the version is captured when the request is sent,
\* and a result arriving when the document's version differs from the captured
\* one changes neither diagnostic collection and shows no error message; it is
\* only logged as stale, whatever the result is.
C5_StaleLintDiscarded ==
    [][\A id \in Ids :
          /\ DispatchStep(id) =>
                lints'[id].documentVersion = version[lints'[id].doc]
          /\ (ResolveStep(id) /\ version[lints[id].doc] # lints[id].documentVersion) =>
                /\ lints'[id].state = "stale"
                /\ diagnosticCollection' = diagnosticCollection
                /\ complianceDiagnosticCollection' = complianceDiagnosticCollection
                /\ errorMessages' = errorMessages
      ]_vars

\* A lint whose document was edited while the request was in flight and whose
\* result has arrived.
C5_Witness ==
    \E id \in Ids :
        /\ lints[id].state = "stale"
        /\ version[lints[id].doc] # lints[id].documentVersion
        /\ ~diagnosticCollection[lints[id].doc].set

\* C6 (staleness gate on every operation): whenever diagnostics are written to
\* the compliance collection of a document, they were computed from the text
\* of the version the document has at the moment of the write.
C6_GateOnEveryOperation ==
    [][\A k \in Docs :
          (/\ complianceDiagnosticCollection'[k] # complianceDiagnosticCollection[k]
           /\ complianceDiagnosticCollection'[k].set)
          => complianceDiagnosticCollection'[k].version = version[k]
      ]_vars

\* C7 (per-key result ordering): when the result of a triggered lint is
\* applied, no result of a lint of the same document triggered and sent later
\* has been applied already.
C7_ResultOrder ==
    [][\A e \in Ids :
          (Scheduled(e) /\ Running(e) /\ lints'[e].state = "applied")
          => ~\E l \in Ids :
                 /\ l > e
                 /\ Scheduled(l)
                 /\ lints[l].doc = lints[e].doc
                 /\ lints[l].state = "applied"
      ]_vars

\* C8 (immediate execute): a manual lint command for a document with an armed
\* timer clears that timer, removes the pending entry and sends exactly one
\* request in the same step; a cleared timer never fires.
C8_ImmediateExecute ==
    [][/\ \A k \in Docs :
             (/\ MapHas(pendingLints, k)
              /\ nextId' = nextId + 1
              /\ lints'[nextId].owned
              /\ lints'[nextId].doc = k)
             => /\ ~MapHas(pendingLints', k)
                /\ timers'[pendingLints[k].timer].state = "cleared"
                /\ tokens'[pendingLints[k].cancel].cancelled
                /\ DispatchStep(nextId)
                /\ \A u \in Ids \ {nextId} : lints'[u] = lints[u]
                /\ now' = now
       /\ \A id \in Ids :
             timers[id].state = "cleared" =>
                 (timers'[id].state = "cleared" /\ ~Dispatched(id) /\ lints'[id] = lints[id])
      ]_vars

\* A manual lint command issued while the timer of a save was armed: the timer
\* is cleared, no entry is pending and the request of the command is in flight.
C8_Witness ==
    \E i \in Ids, j \in Ids :
        /\ j = i + 1
        /\ timers[i].state = "cleared" /\ lints[i].state = "none"
        /\ lints[j].owned /\ Running(j)
        /\ lints[j].doc = timers[i].key
        /\ ~MapHas(pendingLints, timers[i].key)

\* C9 (immediate execute from running): once the manual lint command has been
\* invoked for a document while an earlier request sent by the scheduler for
\* it was in flight,
\* cancellation of that earlier request has been requested.
C9_ImmediateCancelsInFlight ==
    \A i \in Ids, j \in Ids :
        (/\ i < j
         /\ Scheduled(i) /\ Running(i)
         /\ lints[j].owned /\ lints[j].doc = lints[i].doc)
        => tokens[i].cancelled

\* C10 (teardown): in every state, closing a document clears the armed timer
\* of its pending entry, cancels its token and leaves the map without an entry
\* for the key, and closing it once more changes nothing; a closed document
\* has no entry, and a cleared timer has sent no request.
C10_Teardown ==
    /\ \A k \in Docs :
          LET S1 == CloseTextDocument(k, SchedulerState)
          IN /\ ~MapHas(S1.pendingLints, k)
             /\ MapHas(pendingLints, k) =>
                   /\ S1.timers[pendingLints[k].timer].state = "cleared"
                   /\ S1.tokens[pendingLints[k].cancel].cancelled
             /\ \A x \in Docs \ {k} :
                   MapHas(S1.pendingLints, x) <=> MapHas(pendingLints, x)
             /\ CloseTextDocument(k, S1) = S1
          /\ (~open[k] => ~MapHas(pendingLints, k))
    /\ \A id \in Ids : timers[id].state = "cleared" => lints[id].state = "none"

\* A document closed while the timer of its latest save was armed.
C10_Witness ==
    \E i \in Ids :
        /\ timers[i].state = "cleared"
        /\ ~open[timers[i].key]
        /\ \A u \in Ids : u > i => (timers[u].state = "unset" /\ lints[u].state = "none"
                                    /\ compliance[u].state = "none")

\* C11 (teardown from running): once a document has been closed while a lint
\* sent by the scheduler for it was in flight, cancellation of that lint has
\* been requested and its abort signal has fired.
C11_TeardownFromRunning ==
    \A i \in Ids :
        (Scheduled(i) /\ Running(i) /\ ~open[lints[i].doc])
        => (tokens[i].cancelled /\ lints[i].aborted)

\* C12 (one timer per key): a timer becomes armed only in a scheduleLint call
\* for its key, which allocates it, records it in the pending entry of the
\* key and leaves no other timer of the key armed; after every step at most
\* one timer is armed per key, the one of the pending entry.
C12_OneTimerPerKey ==
    [][/\ \A id \in Ids :
             (timers[id].state # "armed" /\ timers'[id].state = "armed") =>
                 /\ id = nextId /\ nextId' = nextId + 1
                 /\ open[timers'[id].key]
                 /\ lastTrigger'[timers'[id].key] = now
                 /\ ArmedTimers(timers', timers'[id].key) = {id}
                 /\ \A u \in ArmedTimers(timers, timers'[id].key) :
                        timers'[u].state = "cleared"
       /\ \A k \in Docs :
             /\ Cardinality(ArmedTimers(timers', k)) <= 1
             /\ \A i \in ArmedTimers(timers', k) :
                    MapHas(pendingLints', k) /\ pendingLints'[k].timer = i
      ]_vars

\* A second save of a document while the timer of the first was armed: the
\* first timer is cleared and the second is the armed one of the pending entry.
C12_Witness ==
    \E i \in Ids, j \in Ids :
        /\ i < j
        /\ timers[i].state = "cleared" /\ timers[j].state = "armed"
        /\ timers[i].key = timers[j].key
        /\ MapHas(pendingLints, timers[j].key)
        /\ pendingLints[timers[j].key].timer = j

\* C13 (one cancellation handle per key): at most one token source created
\* for a key is not yet disposed.
C13_OneHandlePerKey ==
    \A k \in Docs : Cardinality(Outstanding(k)) <= 1

----------------------------------------------------------------------------
\* Vocabulary of the properties of the client.

\* The call has returned its result to the caller.
Returned == call.pc = "done"

\* The error of the Failure the call returned.
ReturnedError == ValueOf(call.result.error)

\* The call returned a Failure whose error has the given code.
FailedWith(code) ==
    /\ call.result.tag = "failure"
    /\ call.result.error # Undefined
    /\ ReturnedError.code = code

\* The message handleFetchError gives for an endpoint that cannot be reached.
UnreachableMessage ==
    Message("Network error: Unable to reach the API server. Check your internet connection.", <<>>)

\* C14 (the client never raises): a call that returned resolved to a Success
\* with data and no error or to a Failure with an error and no data, whether
\* a response arrived, fetch rejected or the read of the body failed; a call
\* still in flight has no result; and a rejection of fetch that is not an
\* AbortError gives NETWORK_ERROR.
C14_NeverRaises ==
    /\ ~Returned => call.result = NoResult
    /\ Returned =>
          /\ call.result.tag \in {"success", "failure"}
          /\ call.result.thrown = Undefined
          /\ call.result.tag = "success" =>
                (call.result.data # Undefined /\ call.result.error = Undefined)
          /\ call.result.tag = "failure" =>
                (call.result.error # Undefined /\ call.result.data = Undefined)
          /\ (call.response = Undefined) # (call.fetchError = Undefined)
          /\ (/\ call.fetchError # Undefined
              /\ ~(/\ ValueOf(call.fetchError).isError
                   /\ ValueOf(call.fetchError).name = "AbortError"))
             => FailedWith("NETWORK_ERROR")
          /\ (call.body # Undefined /\ ~ValueOf(call.body).ok)
             => FailedWith("INVALID_RESPONSE")

\* A call whose response arrived with a 2xx status and whose body could not
\* be read: it returned a Failure.
C14_Witness ==
    /\ Returned
    /\ call.response # Undefined /\ ValueOf(call.response).ok
    /\ call.body # Undefined /\ ~ValueOf(call.body).ok
    /\ FailedWith("INVALID_RESPONSE")
    /\ ReturnedError.cause = ValueOf(call.body).error

\* C15 (cancellation composition): the signal given to fetch aborts at most
\* once; it is aborted as soon as the timeout or the caller's signal has
\* fired; and a call that returned with that signal aborted returned a
\* Failure ABORTED, not retriable, whichever source fired.
C15_CancellationComposition ==
    /\ FetchSignal(call).events <= 1
    /\ (call.callerSignal.aborted \/ call.timeoutSignal.aborted) =>
          (FetchSignal(call).aborted /\ FetchSignal(call).events = 1)
    /\ (Returned /\ FetchSignal(call).aborted) =>
          (FailedWith("ABORTED") /\ ~IsRetriable(ReturnedError))

\* C16 (cancellation at any point): a call that returned after the caller
\* aborted its signal, with the default reason, while the call was in flight
\* returned a Failure ABORTED.
C16_AbortAtAnyPoint ==
    (/\ Returned
     /\ call.callerSignal.aborted
     /\ call.callerSignal.reason = Some(DefaultAbortReason))
    => FailedWith("ABORTED")

\* C17 (timeout timer cleared): once a call has returned, by a response of
\* any status, by an abort or by another rejection of fetch, its timeout
\* timer is not armed.
C17_TimerCleared ==
    Returned => call.timers["timeoutId"].state \in {"cleared", "fired"}

\* A call ended by the caller's abort before its timeout was due: fetch
\* rejected and the timer was cleared.
C17_Witness ==
    /\ Returned
    /\ call.fetchError # Undefined
    /\ call.callerSignal.aborted /\ ~call.timeoutSignal.aborted
    /\ call.timers["timeoutId"].state = "cleared"

\* C18 (status classification, as claimed): a non-2xx response of status s
\* gives a Failure with statusCode s that is RATE_LIMITED iff s = 429,
\* SERVER_ERROR iff 500 <= s <= 599, CLIENT_ERROR iff 400 <= s <= 499 and
\* s # 429, INVALID_RESPONSE otherwise; retriable iff RATE_LIMITED or
\* SERVER_ERROR.
C18_StatusClassification ==
    (Returned /\ call.response # Undefined /\ ~ValueOf(call.response).ok) =>
        LET s == ValueOf(call.response).status
        IN /\ call.result.tag = "failure"
           /\ ReturnedError.statusCode = Some(s)
           /\ FailedWith("RATE_LIMITED") <=> s = 429
           /\ FailedWith("SERVER_ERROR") <=> (500 <= s /\ s <= 599)
           /\ FailedWith("CLIENT_ERROR") <=> (400 <= s /\ s <= 499 /\ s # 429)
           /\ FailedWith("INVALID_RESPONSE") <=>
                 ~(s = 429 \/ (400 <= s /\ s <= 599))
           /\ IsRetriable(ReturnedError) <=> (s = 429 \/ (500 <= s /\ s <= 599))

\* C18 (status classification, amended): a non-2xx response of status s gives
\* a Failure with statusCode s that is RATE_LIMITED iff s = 429, SERVER_ERROR
\* iff s >= 500 (statuses above 599 included), CLIENT_ERROR iff
\* 400 <= s <= 499 and s # 429, INVALID_RESPONSE iff s < 400; retriable iff
\* RATE_LIMITED or SERVER_ERROR.
C18_StatusClassificationOpenEnded ==
    (Returned /\ call.response # Undefined /\ ~ValueOf(call.response).ok) =>
        LET s == ValueOf(call.response).status
        IN /\ call.result.tag = "failure"
           /\ ReturnedError.statusCode = Some(s)
           /\ FailedWith("RATE_LIMITED") <=> s = 429
           /\ FailedWith("SERVER_ERROR") <=> s >= 500
           /\ FailedWith("CLIENT_ERROR") <=> (400 <= s /\ s <= 499 /\ s # 429)
           /\ FailedWith("INVALID_RESPONSE") <=> s < 400
           /\ IsRetriable(ReturnedError) <=> (s = 429 \/ s >= 500)

\* A response with a status above 599: SERVER_ERROR, retriable.
C18_Witness ==
    /\ Returned
    /\ call.response # Undefined
    /\ ValueOf(call.response).status > 599
    /\ FailedWith("SERVER_ERROR")
    /\ IsRetriable(ReturnedError)

\* C19 (isRetriable): for an error built with any code, message, statusCode
\* and cause, isRetriable is true exactly when the code is NETWORK_ERROR,
\* RATE_LIMITED or SERVER_ERROR.
C19_IsRetriablePure ==
    probe.isRetriable # Undefined =>
        (ValueOf(probe.isRetriable)
            <=> ValueOf(probe.error).code \in {"NETWORK_ERROR", "RATE_LIMITED", "SERVER_ERROR"})

\* An error with a code outside the taxonomy and a 5xx statusCode, read as
\* not retriable.
C19_Witness ==
    /\ probe.error # Undefined
    /\ ValueOf(probe.error).code = "TIMEOUT"
    /\ ValueOf(probe.error).statusCode = Some(500)
    /\ probe.isRetriable = Some(FALSE)

\* C20 (transport-level failures): a call that returned without a response
\* returned a Failure that is ABORTED and not retriable if the signal given
\* to fetch was aborted, whatever its reason, and otherwise NETWORK_ERROR,
\* retriable, with the message about the unreachable server.
C20_TransportFailure ==
    (Returned /\ call.response = Undefined) =>
        /\ call.result.tag = "failure"
        /\ IF FetchSignal(call).aborted
           THEN FailedWith("ABORTED") /\ ~IsRetriable(ReturnedError)
           ELSE /\ FailedWith("NETWORK_ERROR")
                /\ IsRetriable(ReturnedError)
                /\ ReturnedError.message = UnreachableMessage

\* The Content-Type of the response the call received.
ResponseContentType == Coalesce(ValueOf(call.response).contentType, <<>>)

\* The call received a 2xx response.
ResponseIsOk == call.response # Undefined /\ ValueOf(call.response).ok

\* The response declares JSON, or plain text, as handleResponse tests it.
DeclaredJson == Includes(ResponseContentType, S_application_json)

DeclaredText == ~DeclaredJson /\ Includes(ResponseContentType, S_text_plain)

\* The body of the response arrived whole.
BodyArrived == call.body # Undefined /\ ValueOf(call.body).text # Undefined

BodyText == ValueOf(ValueOf(call.body).text)

\* Upper-case ASCII letters turned to lower case.
LowerCase(s) ==
    [i \in 1..Len(s) |->
        IF CharCode(s[i]) \in 65..90 THEN CharOfCode(CharCode(s[i]) + 32) ELSE s[i]]

\* The response declares JSON, or plain text: media type names are not
\* case-sensitive.
DeclaresJson == Includes(LowerCase(ResponseContentType), S_application_json)

DeclaresText == ~DeclaresJson /\ Includes(LowerCase(ResponseContentType), S_text_plain)

\* The text of the body that arrived, decoded.
DecodedBody == DecodeBody(BodyText)

\* C21 (JSON negotiation): a call that returned after a 2xx response that
\* declares JSON read the body, and if the body arrived it returned Success
\* with exactly the value the body parses to if the body is a JSON text, and
\* otherwise a Failure INVALID_RESPONSE, not retriable, with the response's
\* status and the SyntaxError of the parse as cause.
C21_JsonNegotiation ==
    (Returned /\ ResponseIsOk /\ DeclaresJson) =>
        /\ call.body # Undefined
        /\ BodyArrived =>
              IF JsonParse(DecodedBody).ok
              THEN call.result = Success(JsonParse(DecodedBody).value)
              ELSE /\ FailedWith("INVALID_RESPONSE")
                   /\ ~IsRetriable(ReturnedError)
                   /\ ReturnedError.statusCode = Some(ValueOf(call.response).status)
                   /\ ReturnedError.cause = ValueOf(call.body).error
                   /\ ReturnedError.cause # Undefined
                   /\ ValueOf(ReturnedError.cause).name = "SyntaxError"

\* C22 (plain-text negotiation): a call that returned after a 2xx response
\* that declares plain text and whose body t arrived returned Success with
\* the data {content: t}, t being the body as it is.
C22_TextNegotiation ==
    (Returned /\ ResponseIsOk /\ DeclaresText /\ BodyArrived) =>
        call.result =
            Success(JsObject(<<[key |-> S_content, value |-> JsString(BodyText)]>>))

\* C23 (unexpected encoding): after a 2xx response whose Content-Type
\* declares neither JSON nor plain text, or is missing, the body is not
\* read, and the call returns a Failure INVALID_RESPONSE, not retriable,
\* whose message is "Unexpected Content-Type: " followed by the Content-Type.
C23_UnexpectedEncoding ==
    (ResponseIsOk /\ ~DeclaredJson /\ ~DeclaredText) =>
        /\ Returned
        /\ call.reading = "" /\ call.body = Undefined
        /\ FailedWith("INVALID_RESPONSE")
        /\ ~IsRetriable(ReturnedError)
        /\ ReturnedError.message =
               Message("Unexpected Content-Type: ", ResponseContentType)

\* A 200 response declared application/xml.
C23_Witness ==
    /\ Returned /\ ResponseIsOk
    /\ ValueOf(call.response).contentType = Some(S_application_xml)
    /\ FailedWith("INVALID_RESPONSE")
    /\ ReturnedError.message.tail = S_application_xml
    /\ call.body = Undefined

\* The query parameters of the request built, and the options it was built
\* from.
QueryParams == ValueOf(request.url).queryParams

QueryOptions == ValueOf(request.options)

HasParam(key) == \E i \in 1..Len(QueryParams) : QueryParams[i].key = key

\* C24 (compliance query): the query of a compliance request has lsp, "true"
\* unless the option says otherwise; select and ignore, as the comma-joined
\* rule ids, exactly when the list is given and not empty; severity and
\* standard exactly when given (an empty string counting as not given);
\* and no parameter with an empty value.
C24_ComplianceQuery ==
    request.url # Undefined =>
        /\ Get(JsObject(QueryParams), S_lsp)
              = BooleanString(QueryOptions.lsp # Some(FALSE))
        /\ \A key \in {S_select, S_ignore} :
               LET list == IF key = S_select THEN QueryOptions.select
                           ELSE QueryOptions.ignore
               IN IF list # Undefined /\ ValueOf(list) # <<>>
                  THEN Get(JsObject(QueryParams), key) = Join(ValueOf(list), <<",">>)
                  ELSE ~HasParam(key)
        /\ HasParam(S_severity) <=> QueryOptions.severity \notin {Undefined, Some(<<>>)}
        /\ HasParam(S_standard) <=> QueryOptions.standard \notin {Undefined, Some(<<>>)}
        /\ \A i \in 1..Len(QueryParams) : QueryParams[i].value # <<>>

\* The text parseLspResponse was called with, the value the text encodes
\* once trimmed, and what the call did.
Stdout == ValueOf(parsed.stdout)

Decoded == JsonParse(Trim(Stdout))

ParseResult == ValueOf(parsed.result)

\* C25 (the validator fails open): called with a text that is empty, white
\* space only, or, once trimmed, not a JSON text, parseLspResponse does not
\* raise and returns the empty batch { diagnostics: [] }.
C25_FailsOpen ==
    (parsed.result # Undefined /\ (Trim(Stdout) = <<>> \/ ~Decoded.ok)) =>
        /\ ~ParseResult.raised
        /\ ParseResult.value = EmptyBatch

\* The malformed text "{diagnostics: [}" gave the empty batch and a warning.
C25_Witness ==
    /\ parsed.result # Undefined
    /\ Stdout = S_malformed
    /\ ~Decoded.ok
    /\ ParseResult = ParseReturned(EmptyBatch, TRUE)

\* The shape of a Diagnostic: message a string, severity one of the integers
\* 1 to 4, range with start and end whose line and character are integers,
\* code a string or an integer if present, source a string if present.
IsInteger(value) == value.type = "number" /\ value.num % 10 = 0

WellFormedPosition(value) ==
    /\ IsObject(value)
    /\ IsInteger(Get(value, S_line))
    /\ IsInteger(Get(value, S_character))

WellFormedRange(value) ==
    /\ IsObject(value)
    /\ WellFormedPosition(Get(value, S_start))
    /\ WellFormedPosition(Get(value, S_end))

WellFormedDiagnostic(value) ==
    /\ IsObject(value)
    /\ Get(value, S_message).type = "string"
    /\ Get(value, S_severity) \in {JsInteger(n) : n \in 1..4}
    /\ WellFormedRange(Get(value, S_range))
    /\ \/ Get(value, S_code).type \in {"undefined", "string"}
       \/ IsInteger(Get(value, S_code))
    /\ Get(value, S_source).type \in {"undefined", "string"}

\* A record with a diagnostics sequence.
HasDiagnostics(value) == IsObject(value) /\ Get(value, S_diagnostics).type = "array"

DiagnosticsOf(value) == Get(value, S_diagnostics).items

WellFormedBatch(value) ==
    /\ HasDiagnostics(value)
    /\ \A i \in 1..Len(DiagnosticsOf(value)) : WellFormedDiagnostic(DiagnosticsOf(value)[i])

\* C26 (all or nothing): for a text that decodes, the result holds every
\* element of the decoded diagnostics, in their order, if the value is a
\* record with a diagnostics sequence all of whose elements have the shape
\* of a Diagnostic; otherwise it is the empty batch.
C26_AllOrNothing ==
    (parsed.result # Undefined /\ Trim(Stdout) # <<>> /\ Decoded.ok) =>
        /\ ~ParseResult.raised
        /\ IF WellFormedBatch(Decoded.value)
           THEN DiagnosticsOf(ParseResult.value) = DiagnosticsOf(Decoded.value)
           ELSE ParseResult.value = EmptyBatch

\* C27 (acceptance criterion): the one element of a decoded batch is kept in
\* the result if it has the shape of a Diagnostic, and otherwise the result
\* is the empty batch.
C27_AcceptanceCriterion ==
    (/\ parsed.result # Undefined /\ Trim(Stdout) # <<>> /\ Decoded.ok
     /\ HasDiagnostics(Decoded.value)
     /\ Len(DiagnosticsOf(Decoded.value)) = 1) =>
        IF WellFormedDiagnostic(DiagnosticsOf(Decoded.value)[1])
        THEN DiagnosticsOf(ParseResult.value) = DiagnosticsOf(Decoded.value)
        ELSE ParseResult.value = EmptyBatch

\* C28 (round trip): parseLspResponse of the JSON text of a well-formed
\* batch, with or without white space around it, returns a value equal to
\* the batch: the same diagnostics in the same order, code and source kept.
C28_RoundTrip ==
    (parsed.result # Undefined /\ parsed.input # Undefined
     /\ WellFormedBatch(ValueOf(parsed.input))) =>
        /\ ~ParseResult.raised
        /\ ParseResult.value = ValueOf(parsed.input)

\* A batch of two diagnostics, the second with a code, a source and a
\* message with a quote, a backslash and a line feed, written with white
\* space around it and read back.
C28_Witness ==
    /\ parsed.result # Undefined /\ parsed.input # Undefined
    /\ WellFormedBatch(ValueOf(parsed.input))
    /\ Len(DiagnosticsOf(ValueOf(parsed.input))) = 2
    /\ Get(DiagnosticsOf(ValueOf(parsed.input))[2], S_code) = JsInteger(42)
    /\ Get(DiagnosticsOf(ValueOf(parsed.input))[2], S_message) = JsString(S_quoted)
    /\ Stdout # Trim(Stdout)
    /\ DiagnosticsOf(ParseResult.value) = DiagnosticsOf(ValueOf(parsed.input))

\* The timeout a call of the client is to arm: the timeoutMs of the call if
\* given, zero included, else the timeoutMs the client was constructed
\* with, else 30000.
ExpectedTimeout(callTimeoutMs) ==
    IF callTimeoutMs # Undefined THEN ValueOf(callTimeoutMs)
    ELSE IF client.timeoutMs # Undefined THEN ValueOf(client.timeoutMs)
    ELSE 30000

\* C30 (effective timeout): a call arms its timer to fire after the
\* timeoutMs of the call if given (0 included), else after the timeoutMs of
\* the constructor, else after 30000 ms; and a call whose timer fired, which
\* it can only while fetch is pending, returns ABORTED, not retriable.
C30_EffectiveTimeout ==
    /\ [][call'.seq # call.seq =>
             /\ call'.effectiveTimeout = ExpectedTimeout(call'.timeoutMs)
             /\ call'.timers["timeoutId"] =
                    [state |-> "armed", key |-> call'.endpoint,
                     deadline |-> now + ExpectedTimeout(call'.timeoutMs)]]_vars
    /\ [][(call.timers["timeoutId"].state # "fired"
             /\ call'.timers["timeoutId"].state = "fired") =>
                call.pc = "fetching" /\ call.response = Undefined]_vars
    /\ []((Returned /\ call.timers["timeoutId"].state = "fired") =>
              FailedWith("ABORTED") /\ ~IsRetriable(ReturnedError))

\* A call with timeoutMs 0 on a client constructed with timeoutMs 5000: the
\* timer fired at once and the call returned ABORTED.
C30_Witness ==
    /\ Returned
    /\ client.timeoutMs = Some(5000)
    /\ call.timeoutMs = Some(0)
    /\ call.effectiveTimeout = 0
    /\ call.timers["timeoutId"].state = "fired"
    /\ FailedWith("ABORTED")

\* The data of the lint result and what lintDocument did with it.
LintResultData == ValueOf(pipeline.data)

PipelineOutcome == ValueOf(pipeline.outcome)

\* C29 (validate before apply): lintDocument does not raise on the data of a
\* successful result, and what it sets in the diagnostic collection is the
\* conversion of the batch the validator makes of the data: every
\* diagnostic of data that passes isLspDiagnosticResponse, and nothing of
\* data that does not.
C29_ValidateBeforeApply ==
    pipeline.outcome # Undefined =>
        /\ ~PipelineOutcome.threw
        /\ PipelineOutcome = HandleLintDataValidated(LintResultData, DocumentLines)

----------------------------------------------------------------------------
\* Vocabulary of the lifecycle properties.

\* No timer is armed and no lint is awaiting its result.
Quiescent ==
    \A id \in Ids : timers[id].state # "armed" /\ lints[id].state # "running"

\* The token sources created by scheduleLint and not disposed.
UndisposedHandles ==
    {id \in Ids : Scheduled(id) /\ tokens[id].state = "live" /\ ~tokens[id].disposed}

\* C31 (disposal of every handle): the token source created by a scheduleLint
\* call is disposed once its lint is superseded, torn down, or dispatched and
\* resolved (applied, failed, stale, threw or skipped); at quiescence no
\* token source created by the scheduler is left undisposed.
C31_HandlesDisposed ==
    /\ \A id \in Ids :
          (/\ Scheduled(id)
           /\ \/ timers[id].state = "cleared"
              \/ lints[id].state \in {"applied", "failed", "stale", "threw", "skipped"})
          => tokens[id].disposed
    /\ Quiescent => UndisposedHandles = {}

\* C32 (lifecycle of the pending entry): in every state the pending map has
\* an entry for a key exactly when a debounce timer of the key is armed, and
\* that timer is the one of the entry. An entry appears or is replaced only
\* in a scheduleLint call for its key (which clears the timer and disposes
\* the token source of the entry it replaces), and it disappears only when
\* its timer fires, when the lint command runs for the key, when the document
\* is closed, or on dispose.
C32_PendingLifecycle ==
    /\ [](\A k \in Docs :
             /\ MapHas(pendingLints, k) <=> ArmedTimers(timers, k) # {}
             /\ MapHas(pendingLints, k) =>
                   ArmedTimers(timers, k) = {pendingLints[k].timer})
    /\ [][\A k \in Docs :
             /\ (/\ MapHas(pendingLints', k)
                 /\ ~MapHas(pendingLints, k) \/ pendingLints'[k] # pendingLints[k])
                => /\ nextId' = nextId + 1
                   /\ pendingLints'[k] = [timer |-> nextId, cancel |-> nextId]
                   /\ lastTrigger'[k] = now
                   /\ MapHas(pendingLints, k) =>
                         /\ timers'[pendingLints[k].timer].state = "cleared"
                         /\ tokens'[pendingLints[k].cancel].disposed
             /\ (MapHas(pendingLints, k) /\ ~MapHas(pendingLints', k))
                => LET t == pendingLints[k].timer
                   IN \/ timers'[t].state = "fired" /\ now >= timers[t].deadline
                      \/ /\ timers'[t].state = "cleared"
                         /\ tokens'[pendingLints[k].cancel].cancelled
                         /\ tokens'[pendingLints[k].cancel].disposed
                         /\ \/ nextId' = nextId + 1 /\ lints'[nextId].owned
                                                    /\ lints'[nextId].doc = k
                            \/ open[k] /\ ~open'[k]
                            \/ ~disposed /\ disposed'
       ]_vars

\* A save after the timer of an earlier save of the document fired: the first
\* entry was removed at dispatch and the entry of the second save is pending,
\* its timer armed.
C32_Witness ==
    \E i \in Ids, j \in Ids :
        /\ i < j
        /\ timers[i].state = "fired" /\ timers[j].state = "armed"
        /\ timers[i].key = timers[j].key
        /\ pendingLints[timers[j].key].timer = j

\* This step is an event of key k: a save trigger, the expiry of a timer of
\* the key, the lint command, or the close of the document.
KeyEvent(k) ==
    \/ nextId' = nextId + 1 /\ timers'[nextId].key = k
    \/ \E id \in Ids : /\ timers[id].key = k
                       /\ timers[id].state = "armed" /\ timers'[id].state = "fired"
    \/ nextId' = nextId + 1 /\ lints'[nextId].owned /\ lints'[nextId].doc = k
    \/ open[k] /\ ~open'[k]

\* This step leaves the pending entry, the timers, the token sources and the
\* lints of key k as they are.
KeyUnchanged(k) ==
    /\ MapHas(pendingLints', k) <=> MapHas(pendingLints, k)
    /\ MapHas(pendingLints, k) => pendingLints'[k] = pendingLints[k]
    /\ ArmedTimers(timers', k) = ArmedTimers(timers, k)
    /\ \A i \in Ids :
          /\ timers[i].key = k => timers'[i] = timers[i]
          /\ (tokens[i].state = "live" /\ TokenKey(i) = k) => tokens'[i] = tokens[i]
          /\ lints[i].doc = k => lints'[i] = lints[i]
    /\ open'[k] = open[k]
    /\ lastTrigger'[k] = lastTrigger[k]

\* C33 (per-key isolation): a save trigger, timer expiry, lint command or
\* close for one document leaves the pending entry, the timers (with their
\* deadlines), the token sources and the lints of every other document
\* unchanged; none of them is cancelled, cleared or delayed.
C33_PerKeyIsolation ==
    [][\A k1 \in Docs : KeyEvent(k1) => \A k2 \in Docs \ {k1} : KeyUnchanged(k2)]_vars

\* A document whose timer was cleared (by a later save, the lint command or
\* its close) or fired while the timer of an earlier save of the other
\* document was armed, and still is, with its entry and a live token source.
C33_Witness ==
    \E i \in Ids, j \in Ids :
        /\ j < i
        /\ timers[i].state \in {"cleared", "fired"}
        /\ timers[j].state = "armed"
        /\ timers[i].key # timers[j].key
        /\ pendingLints[timers[j].key] = [timer |-> j, cancel |-> j]
        /\ ~tokens[j].cancelled

\* C34 (content/version consistency): lintDocument captures the version and
\* the text of the document in one step, and whenever it writes diagnostics
\* for a document, they were computed from the text of the version the
\* document has at the moment of the write.
C34_ContentVersionConsistency ==
    [][/\ \A id \in Ids :
             /\ DispatchStep(id) =>
                   /\ lints'[id].documentVersion = version[lints'[id].doc]
                   /\ lints'[id].content = version[lints'[id].doc]
             /\ (ResolveStep(id) /\ lints'[id].state = "applied") =>
                   /\ lints[id].content = version[lints[id].doc]
                   /\ diagnosticCollection'[lints[id].doc] =
                          [set |-> TRUE, version |-> version[lints[id].doc]]
       /\ \A k \in Docs :
             (/\ diagnosticCollection'[k] # diagnosticCollection[k]
              /\ diagnosticCollection'[k].set)
             => diagnosticCollection'[k].version = version'[k]
      ]_vars

\* The result of a lint sent after an edit is applied while another lint of
\* the document, sent before the edit, was discarded or is still in flight.
C34_Witness ==
    \E i \in Ids, j \in Ids :
        /\ lints[i].doc = lints[j].doc
        /\ lints[i].state \in {"running", "stale"}
        /\ lints[i].content < lints[j].content
        /\ lints[j].state = "applied"
        /\ diagnosticCollection[lints[j].doc] =
               [set |-> TRUE, version |-> version[lints[j].doc]]

\* C35 (no write after close): once a document is closed, neither diagnostic
\* collection has an entry for it; a lint or compliance request in flight at
\* the close writes nothing for the closed document when its result arrives.
\* (A closed document starts no lint and no compliance check.)
C35_NoWriteAfterClose ==
    /\ [](\A k \in Docs :
             ~open[k] => /\ ~diagnosticCollection[k].set
                         /\ ~complianceDiagnosticCollection[k].set)
    /\ [][\A k \in Docs :
             ~open[k] => /\ diagnosticCollection'[k] = diagnosticCollection[k]
                         /\ complianceDiagnosticCollection'[k] =
                                complianceDiagnosticCollection[k]
       ]_vars

\* The call has been started and has not returned its result.
CallPending == call.pc \in {"fetching", "reading"}

\* C36 (the timeout covers the whole call): as long as a call is pending,
\* waiting for the response headers or for the body, its timeout is in
\* force: the timer is armed, or it has fired and aborted the request; a
\* call that returned after its timer fired returned ABORTED.
C36_TimeoutCoversCall ==
    /\ CallPending =>
          \/ call.timers["timeoutId"].state = "armed"
          \/ call.timers["timeoutId"].state = "fired" /\ call.timeoutSignal.aborted
    /\ (Returned /\ call.timers["timeoutId"].state = "fired") => FailedWith("ABORTED")

\* C37 (a failure leaves the store alone): when the result of a lint is a
\* Failure, whatever its kind and whatever the version of the document,
\* neither diagnostic collection changes; a result is applied only if it is
\* a Success and the version of the document is the captured one.
C37_FailureLeavesStore ==
    [][/\ \A id \in Ids :
             /\ LintResolve(id, "failure") =>
                   /\ diagnosticCollection' = diagnosticCollection
                   /\ complianceDiagnosticCollection' = complianceDiagnosticCollection
                   /\ lints'[id].state \in {"failed", "stale"}
             /\ (ResolveStep(id) /\ lints'[id].state # "applied") =>
                   diagnosticCollection' = diagnosticCollection
       /\ \A dv \in 1..MaxVersion, cv \in 1..MaxVersion, r \in Results :
             LintOutcome(dv, cv, r) = "applied" <=> (r = "success" /\ cv = dv)
      ]_vars

\* A lint that failed on a document whose diagnostics an earlier lint had
\* applied: they are still in the collection.
C37_Witness ==
    \E i \in Ids, j \in Ids :
        /\ i < j
        /\ lints[i].doc = lints[j].doc
        /\ lints[i].state = "applied"
        /\ lints[j].state = "failed"
        /\ j \in errorMessages
        /\ diagnosticCollection[lints[j].doc] =
               [set |-> TRUE, version |-> lints[i].content]

\* C38 (dispose): after dispose() the pending map is empty, no timer is
\* armed, the timer of every entry that was pending is cleared and its token
\* source cancelled and disposed; no lint of a save is dispatched after
\* dispose, so a lint scheduled before dispose and not yet dispatched never
\* is.
C38_Dispose ==
    /\ [](disposed =>
             /\ pendingLints = EmptyMap
             /\ \A id \in Ids :
                   /\ timers[id].state # "armed"
                   /\ (Scheduled(id) /\ ~Dispatched(id) /\ lints[id].state # "skipped")
                      => /\ timers[id].state = "cleared"
                         /\ tokens[id].cancelled /\ tokens[id].disposed
                         /\ lints[id].state = "none")
    /\ [][/\ \A id \in Ids : disposed => ~(Scheduled(id) /\ DispatchStep(id))
          /\ (~disposed /\ disposed') =>
                \A k \in DOMAIN pendingLints :
                    /\ timers'[pendingLints[k].timer].state = "cleared"
                    /\ tokens'[pendingLints[k].cancel].cancelled
                    /\ tokens'[pendingLints[k].cancel].disposed
       ]_vars

\* The extension was disposed while the timer of a save was armed, and time
\* has passed beyond the deadline the timer had: the lint was never sent.
C38_Witness ==
    \E id \in Ids :
        /\ disposed
        /\ timers[id].state = "cleared"
        /\ open[timers[id].key]
        /\ \A u \in Ids : u > id => timers[u].state = "unset" /\ lints[u].state = "none"
        /\ now >= lastTrigger[timers[id].key] + DEBOUNCE_MS
        /\ lints[id].state = "none"

\* The lintDocument invocations that have shown the status and not finished.
ActiveLints == {i \in Ids : lints[i].state = "running"}

\* C39 (status indicator accounting): activeLintCount is never negative and
\* equals the number of lintDocument invocations that have shown the status
\* and not yet finished, and the status bar item is visible whenever that
\* count is greater than zero, also while compliance checks start and end.
C39_StatusAccounting ==
    /\ activeLintCount >= 0
    /\ activeLintCount = Cardinality(ActiveLints)
    /\ activeLintCount > 0 => statusBarVisible

====
